---- MODULE Spec2Model ----
(***************************************************************************)
(* Card compositor of GenCard: the layout catalogue, the scale presets,   *)
(* the border-space calculator, the double-line border layers and the     *)
(* layer pipeline of composeCard.                                         *)
(*                                                                         *)
(* Units.  Layout rectangles, canvas sizes and layer placements are whole *)
(* pixels.  Border ring widths are fractional in the source (1.5 px, and  *)
(* 0.75 px for half an inner line), so every border width and every SVG   *)
(* coordinate is held in quarter pixels: Q quarter pixels make one pixel. *)
(* Scale factors are held in percent (0.95 is 95); scaleRect is computed  *)
(* in exact arithmetic, which agrees with the source's floating point on  *)
(* every catalogue rectangle for every whole-percent factor.              *)
(***************************************************************************)
EXTENDS Integers, Sequences, FiniteSets

VARIABLES
    pc,          \* which call is running and where it stands
    opts,        \* ComposeCardOptions of the composeCard call
    layout,      \* composeCard: the resolved (and scaled) layout
    local,       \* composeCard: effectiveLayoutMode, effectiveCropAnchor, glowConfig
    validation,  \* composeCard: result of validateLayoutBorders
    layers,      \* composeCard: layers composited so far, bottom first
    error,       \* composeCard: message of the thrown error, "" when none
    gapIn,       \* arguments of a validateBorderGap call
    gapOut,      \* its result
    scaleIn,     \* arguments of an applyScalePreset or applyScaleFactor call
    scaleOut,    \* its result
    result,      \* composeCard: the buffer it returned, NoImage until it returns
    frameIn,     \* arguments of a renderFrame call and the asset files on disk
    frameOut,    \* what the call returned or threw
    frameInfo,   \* what getFrameRenderInfo reported for the same options
    frameTask,   \* the renderFrame call while it is suspended at an await
    assetCache,  \* assetLoader: the module-level Map from asset path to buffer
    assetLog,    \* assetLoader: the cache and file-system accesses made, in order
    borderIn,    \* arguments of a renderDoubleLine...Border call
    borderOut,   \* its result
    fontIn,      \* arguments of a calculateFontSize call
    fontOut,     \* its result
    svgOut,      \* what createTextSvg laid out at that font size
    wrapIn,      \* arguments of a wrapText call
    wrapOut,     \* its result
    disk,        \* assetLoader: the asset files on disk, path -> content version
    tasks,       \* assetLoader: the calls in progress or last finished, per caller
    loadTimeCache, \* assetLoader: the paths with a recorded load time
    loaderSteps, \* assetLoader: calls started and file changes made so far
    gen          \* qwenGenerator: the generate or generateFromText call under way

vars == <<pc, opts, layout, local, validation, layers, error, gapIn, gapOut, scaleIn, scaleOut,
          result, frameIn, frameOut, frameInfo, frameTask, assetCache, assetLog, borderIn, borderOut, fontIn, fontOut,
          svgOut, wrapIn, wrapOut,
          disk, tasks, loadTimeCache, loaderSteps, gen>>

\* the variables of the calls that are not part of composeCard's pipeline
frameVars == <<frameIn, frameOut, frameInfo, frameTask, assetCache, assetLog>>

borderVars == <<borderIn, borderOut>>

fontVars == <<fontIn, fontOut, svgOut, wrapIn, wrapOut>>

\* the variables of the asset loader besides assetCache
loaderVars == <<disk, tasks, loadTimeCache, loaderSteps>>

\* the variables of composeCard
composeVars == <<opts, layout, local, validation, layers, error, result>>

gapVars == <<gapIn, gapOut>>

scaleVars == <<scaleIn, scaleOut>>

-----------------------------------------------------------------------------
(* Arithmetic helpers                                                      *)

Q == 4

Max(a, b) == IF a >= b THEN a ELSE b

Min(a, b) == IF a <= b THEN a ELSE b

Abs(a) == IF a >= 0 THEN a ELSE -a

\* Math.round of the rational n / d (d > 0): nearest integer, ties upwards
MathRound(n, d) == (2 * n + d) \div (2 * d)

\* Math.ceil of q quarter pixels, in pixels
MathCeil(q) == (q + Q - 1) \div Q

-----------------------------------------------------------------------------
(* Layout catalogue                                                        *)

Frame(x, y, w, h) == [x |-> x, y |-> y, width |-> w, height |-> h]

TextBox(id, x, y, w, h) == [id |-> id, x |-> x, y |-> y, width |-> w, height |-> h]

LayoutVariants == {"landscape-square", "landscape-flat", "portrait-square", "portrait-flat"}

LayoutModes == {"landscape", "portrait"}

LAYOUT_VARIANTS ==
    [v \in LayoutVariants |->
        CASE v = "landscape-square" ->
               [canvas |-> [width |-> 1024, height |-> 768],
                artworkFrame |-> Frame(40, 40, 390, 688),
                titleBox |-> TextBox("title", 480, 40, 504, 100),
                contentBoxes |-> << TextBox("content1", 480, 190, 227, 244),
                                    TextBox("content2", 757, 190, 227, 244),
                                    TextBox("content3", 480, 484, 227, 244),
                                    TextBox("content4", 757, 484, 227, 244) >>]
          [] v = "landscape-flat" ->
               [canvas |-> [width |-> 1024, height |-> 768],
                artworkFrame |-> Frame(40, 40, 390, 688),
                titleBox |-> TextBox("title", 480, 124, 504, 100),
                contentBoxes |-> << TextBox("content1", 480, 274, 227, 160),
                                    TextBox("content2", 757, 274, 227, 160),
                                    TextBox("content3", 480, 484, 227, 160),
                                    TextBox("content4", 757, 484, 227, 160) >>]
          [] v = "portrait-square" ->
               [canvas |-> [width |-> 768, height |-> 1024],
                artworkFrame |-> Frame(144, 40, 480, 480),
                titleBox |-> TextBox("title", 144, 570, 480, 70),
                contentBoxes |-> << TextBox("content1", 144, 690, 215, 130),
                                    TextBox("content2", 409, 690, 215, 130),
                                    TextBox("content3", 144, 870, 215, 110),
                                    TextBox("content4", 409, 870, 215, 110) >>]
          [] v = "portrait-flat" ->
               [canvas |-> [width |-> 768, height |-> 1024],
                artworkFrame |-> Frame(144, 40, 480, 480),
                titleBox |-> TextBox("title", 144, 570, 480, 70),
                contentBoxes |-> << TextBox("content1", 144, 690, 215, 90),
                                    TextBox("content2", 409, 690, 215, 90),
                                    TextBox("content3", 144, 830, 215, 90),
                                    TextBox("content4", 409, 830, 215, 90) >>]]

LANDSCAPE_LAYOUT == LAYOUT_VARIANTS["landscape-square"]

PORTRAIT_LAYOUT == LAYOUT_VARIANTS["portrait-square"]

getLayoutConfig(mode) == IF mode = "landscape" THEN LANDSCAPE_LAYOUT ELSE PORTRAIT_LAYOUT

getLayoutConfigByVariant(variant) == LAYOUT_VARIANTS[variant]

\* variant.startsWith('landscape')
getLayoutModeFromVariant(variant) ==
    IF variant \in {"landscape-square", "landscape-flat"} THEN "landscape" ELSE "portrait"

\* variant: every layout defaults to the centre
getDefaultCropAnchorCentered(layoutMode) == "center"

getDefaultCropAnchor(layoutMode) == IF layoutMode = "portrait" THEN "top" ELSE "center"

getCropPosition(anchor) ==
    CASE anchor = "top" -> "north"
      [] anchor = "center" -> "centre"
      [] anchor = "bottom" -> "south"

getAllTextBoxes(l) == <<l.titleBox>> \o l.contentBoxes

-----------------------------------------------------------------------------
(* Scale presets (factor in percent)                                       *)

ScalePresets == {"standard", "moderate", "compact", "slim", "mini"}

SCALE_PRESETS ==
    [p \in ScalePresets |->
        CASE p = "standard" -> [factor |-> 100]
          [] p = "moderate" -> [factor |-> 95]
          [] p = "compact" -> [factor |-> 90]
          [] p = "slim" -> [factor |-> 80]
          [] p = "mini" -> [factor |-> 70]]

\* mutant: every preset reads the factor of the next smaller one
getScaleConfigShifted(preset) ==
    CASE preset = "standard" -> SCALE_PRESETS["moderate"]
      [] preset = "moderate" -> SCALE_PRESETS["compact"]
      [] preset = "compact" -> SCALE_PRESETS["slim"]
      [] OTHER -> SCALE_PRESETS["mini"]

getScaleConfig(preset) == SCALE_PRESETS[preset]

\* mutant: the position is scaled, the size is not
scaleRectKeepsSize(rect, scaleFactor, centerX2, centerY2) ==
    LET offsetX2 == (2 * rect.x + rect.width) - centerX2
        offsetY2 == (2 * rect.y + rect.height) - centerY2
        newX200 == 100 * centerX2 + offsetX2 * scaleFactor - 100 * rect.width
        newY200 == 100 * centerY2 + offsetY2 * scaleFactor - 100 * rect.height
    IN  [rect EXCEPT !.x = MathRound(newX200, 200), !.y = MathRound(newY200, 200)]

\* The code computes in IEEE doubles.  A double d is followed as
\*   exact - the value exact arithmetic gives, in 1/200 px,
\*   err   - d minus that value, in units of 1 / (100 * 2^55) px,
\*   low   - d in units of 2^-54 px, modulo 2^17,
\* which is enough to tell how every operation rounds (values stay below
\* 2^14 px).

\* 2^17
DoubleLows == 131072

\* The scale factors 0.70 .. 1.00 as doubles.  The double of k / 100 is
\* N / 2^53; FactorLow[k - 69] is N modulo 2^17 and FactorDelta[k - 69] is
\* 100 * N - k * 2^53.
FactorLow ==
    << 26214, 73400, 120586, 36700, 83886, 0, 47186, 94372, 10486, 57672,
       104858, 20972, 68157, 115343, 31457, 78643, 125829, 41943, 89129, 5243,
       52429, 99615, 15729, 62915, 110100, 26214, 73400, 120586, 36700, 83886, 0 >>

FactorDelta ==
    << -40, -32, -24, -16, -8, 0, 8, 16, 24, 32,
       40, 48, -44, -36, -28, -20, -12, -4, 4, 12,
       20, 28, 36, 44, -48, -40, -32, -24, -16, -8, 0 >>

Sign(v) == IF v > 0 THEN 1 ELSE IF v < 0 THEN -1 ELSE 0

RECURSIVE ulpWithin(_)
\* the largest power of two p with p * 50 <= a, and 1 when there is none
ulpWithin(a) == IF a < 100 THEN 1 ELSE 2 * ulpWithin(a \div 2)

\* a value just below a power of two lies in the binade below it
ulpBelowEdge(m, a, below) == IF m > 1 /\ m * 50 = a /\ below THEN m \div 2 ELSE m

\* the spacing of the doubles around a value, in units of 2^-54: 2^(e+2)
\* for a value in [2^e, 2^(e+1)), and 1 below 1/2 (nothing to round there)
ulpOf(exact, err) == ulpBelowEdge(ulpWithin(Abs(exact)), Abs(exact), Sign(exact) * err < 0)

\* round to nearest, a tie to the even neighbour: what is added to a
\* magnitude whose remainder modulo the spacing m is rem
nearestEven(magnitude, m, rem) ==
    IF rem * 2 > m \/ (rem * 2 = m /\ (magnitude \div m) % 2 = 1) THEN m - rem ELSE - rem

\* the double of sign s that is adj units of 2^-54 further from zero
awayFromZero(exact, low, err, s, adj) ==
    [exact |-> exact, low |-> (low + s * adj) % DoubleLows, err |-> err + 200 * s * adj]

roundToSpacing(exact, low, err, s, magnitude, m) ==
    awayFromZero(exact, low, err, s, nearestEven(magnitude, m, magnitude % m))

roundWithSign(exact, low, err, s) ==
    roundToSpacing(exact, low, err, s, (s * low) % DoubleLows, ulpOf(exact, err))

\* the double nearest to the result of an operation (ties to even)
roundToDouble(exact, low, err) ==
    roundWithSign(exact, low, err, IF exact # 0 THEN Sign(exact) ELSE Sign(err))

\* (n2 / 2) * scaleFactor, for an integer n2 and a factor in percent
timesFactor(n2, scaleFactor) ==
    roundToDouble(n2 * scaleFactor,
                  (Sign(n2) * (((Abs(n2) % DoubleLows) * FactorLow[scaleFactor - 69])
                                 % DoubleLows)) % DoubleLows,
                  2 * n2 * FactorDelta[scaleFactor - 69])

\* (n2 / 2) + d, for an integer n2
plusDouble(n2, d) == roundToDouble(100 * n2 + d.exact, d.low, d.err)

\* a - b
minusDouble(a, b) ==
    roundToDouble(a.exact - b.exact, (a.low - b.low) % DoubleLows, a.err - b.err)

\* d * 2
twice(d) == [d EXCEPT !.exact = 2 * @]

\* Math.round of a double: the nearest integer, a tie goes upwards; a
\* double just below a tie of the exact value goes downwards
MathRoundDouble(d) ==
    IF d.exact % 200 = 100 /\ d.err < 0
    THEN MathRound(d.exact, 200) - 1 ELSE MathRound(d.exact, 200)

\* newCenter - scaledSize / 2, with newCenter = center + offset * scaleFactor
scaledOrigin(offset2, center2, halfScaledSize, scaleFactor) ==
    minusDouble(plusDouble(center2, timesFactor(offset2, scaleFactor)), halfScaledSize)

\* scaleRect(rect, scaleFactor, centerX, centerY); the centre is passed as
\* twice its value (centerX2 = 2 * centerX), the factor in percent
\* (70..100).  rect.x + rect.width / 2 and the offsets are exact in
\* doubles; the products, the sum and the difference are rounded.
scaleRect(rect, scaleFactor, centerX2, centerY2) ==
    LET rectCenterX2 == 2 * rect.x + rect.width
        rectCenterY2 == 2 * rect.y + rect.height
        offsetX2 == rectCenterX2 - centerX2
        offsetY2 == rectCenterY2 - centerY2
        halfScaledWidth == timesFactor(rect.width, scaleFactor)
        halfScaledHeight == timesFactor(rect.height, scaleFactor)
        newX == scaledOrigin(offsetX2, centerX2, halfScaledWidth, scaleFactor)
        newY == scaledOrigin(offsetY2, centerY2, halfScaledHeight, scaleFactor)
    IN  [rect EXCEPT !.x = MathRoundDouble(newX),
                     !.y = MathRoundDouble(newY),
                     !.width = MathRoundDouble(twice(halfScaledWidth)),
                     !.height = MathRoundDouble(twice(halfScaledHeight))]

applyScaleFactor(l, scaleFactor) ==
    LET clampedFactor == Max(70, Min(100, scaleFactor))
        centerX2 == l.canvas.width
        centerY2 == l.canvas.height
    IN  IF clampedFactor = 100
        THEN l
        ELSE [l EXCEPT
                !.artworkFrame = scaleRect(l.artworkFrame, clampedFactor, centerX2, centerY2),
                !.titleBox = scaleRect(l.titleBox, clampedFactor, centerX2, centerY2),
                !.contentBoxes = [i \in DOMAIN l.contentBoxes |->
                                    scaleRect(l.contentBoxes[i], clampedFactor, centerX2, centerY2)]]

applyScalePreset(l, preset) == applyScaleFactor(l, getScaleConfig(preset).factor)

-----------------------------------------------------------------------------
(* Outer glow and double-line border styles (widths in quarter pixels,    *)
(* opacity in percent)                                                     *)

GlowIntensities == {"subtle", "medium", "strong", "none"}

GLOW_PRESETS ==
    [g \in GlowIntensities |->
        CASE g = "subtle" -> [blur |-> 4 * Q, opacity |-> 15, spread |-> 2 * Q]
          [] g = "medium" -> [blur |-> 6 * Q, opacity |-> 22, spread |-> 3 * Q]
          [] g = "strong" -> [blur |-> 8 * Q, opacity |-> 30, spread |-> 4 * Q]
          [] g = "none" -> [blur |-> 0, opacity |-> 0, spread |-> 0]]

DEFAULT_GLOW_CONFIG == GLOW_PRESETS["medium"]

getGlowConfig(intensity) == GLOW_PRESETS[intensity]

\* An optional OuterGlowConfig is <<>> (undefined) or <<config>>
Undefined == <<>>

\* glowConfig || DEFAULT_GLOW_CONFIG
glowOrDefault(glowConfig) == IF glowConfig = Undefined THEN DEFAULT_GLOW_CONFIG ELSE glowConfig[1]

\* outerWidth 5, innerWidth 1.5, gap 1.5; innerStrokeOpacity in percent
ENHANCED_ARTWORK_BORDER ==
    [outerWidth |-> 20, innerWidth |-> 6, gap |-> 6,
     outerGradient |-> << "#FFE4A0", "#D4AF37", "#B8860B", "#D4AF37", "#FFE4A0" >>,
     innerStrokeColor |-> "#000000", innerStrokeOpacity |-> 40]

\* outerWidth 4, innerWidth 1, gap 1; innerStrokeOpacity in percent
ENHANCED_TEXTBOX_BORDER ==
    [outerWidth |-> 16, innerWidth |-> 4, gap |-> 4,
     outerGradient |-> << "#B8A080", "#8B7355", "#6B5335", "#8B7355", "#B8A080" >>,
     innerStrokeColor |-> "#000000", innerStrokeOpacity |-> 35]

\* the border presets gold, silver and bronze
BORDER_PRESETS ==
    [b \in {"gold", "silver", "bronze"} |->
        CASE b = "gold" ->
               [gradientColors |-> << "#FFE4A0", "#D4AF37", "#B8860B", "#D4AF37", "#FFE4A0" >>,
                highlightColor |-> "rgba(255, 255, 200, 0.5)"]
          [] b = "silver" ->
               [gradientColors |-> << "#E8E8E8", "#C0C0C0", "#A0A0A0", "#C0C0C0", "#E8E8E8" >>,
                highlightColor |-> "rgba(255, 255, 255, 0.6)"]
          [] b = "bronze" ->
               [gradientColors |-> << "#E8C8A0", "#CD7F32", "#8B4513", "#CD7F32", "#E8C8A0" >>,
                highlightColor |-> "rgba(255, 220, 180, 0.4)"]]

TEXT_BOX_BORDER_RADIUS == 10

MIN_BORDER_GAP == 2

\* variant: the padding is kept whatever the opacity
glowPaddingAlways(glow) == MathCeil(glow.blur + glow.spread)

\* glow.opacity > 0 ? Math.ceil(glow.blur + glow.spread) : 0, in pixels
glowPaddingOf(glow) == IF glow.opacity > 0 THEN MathCeil(glow.blur + glow.spread) ELSE 0

-----------------------------------------------------------------------------
(* Border-space calculator (BorderDimensions in quarter pixels)            *)

\* variant: the 2 px hairline is left out of the footprint
calculateTotalBorderSpaceNoStroke(border) ==
    border.outerWidth + border.gap + border.innerWidth + border.glowPadding

calculateTotalBorderSpace(border) ==
    border.outerWidth + border.gap + border.innerWidth + border.innerStroke + border.glowPadding

getArtworkBorderDimensions(glowConfig) ==
    LET glow == glowOrDefault(glowConfig)
    IN  [outerWidth |-> ENHANCED_ARTWORK_BORDER.outerWidth,
         gap |-> ENHANCED_ARTWORK_BORDER.gap,
         innerWidth |-> ENHANCED_ARTWORK_BORDER.innerWidth,
         innerStroke |-> 2 * Q,
         glowPadding |-> glowPaddingOf(glow) * Q]

getTextBoxBorderDimensions(glowConfig) ==
    LET glow == glowOrDefault(glowConfig)
    IN  [outerWidth |-> ENHANCED_TEXTBOX_BORDER.outerWidth,
         gap |-> ENHANCED_TEXTBOX_BORDER.gap,
         innerWidth |-> ENHANCED_TEXTBOX_BORDER.innerWidth,
         innerStroke |-> 2 * Q,
         glowPadding |-> glowPaddingOf(glow) * Q]

\* mutant: extents that only touch do not overlap
extentsOverlapOpen(lo1, hi1, lo2, hi2) == ~(hi1 <= lo2 \/ hi2 <= lo1)

\* The two overlap tests of validateBorderGap, on extents in quarter pixels
extentsOverlap(lo1, hi1, lo2, hi2) == ~(hi1 < lo2 \/ hi2 < lo1)

\* mutant: the gap must exceed minGap instead of reaching it
validateBorderGapStrict(frame1, frame2, border1Dimensions, border2Dimensions, minGap) ==
    LET border1Space == calculateTotalBorderSpace(border1Dimensions)
        border2Space == calculateTotalBorderSpace(border2Dimensions)
        frame1Left == frame1.x * Q - border1Space
        frame1Right == (frame1.x + frame1.width) * Q + border1Space
        frame1Top == frame1.y * Q - border1Space
        frame1Bottom == (frame1.y + frame1.height) * Q + border1Space
        frame2Left == frame2.x * Q - border2Space
        frame2Right == (frame2.x + frame2.width) * Q + border2Space
        frame2Top == frame2.y * Q - border2Space
        frame2Bottom == (frame2.y + frame2.height) * Q + border2Space
        horizontalGap == Min(Abs(frame1Right - frame2Left), Abs(frame2Right - frame1Left))
        verticalGap == Min(Abs(frame1Bottom - frame2Top), Abs(frame2Bottom - frame1Top))
        horizontalOverlap == extentsOverlap(frame1Left, frame1Right, frame2Left, frame2Right)
        verticalOverlap == extentsOverlap(frame1Top, frame1Bottom, frame2Top, frame2Bottom)
    IN  IF ~horizontalOverlap /\ ~verticalOverlap THEN TRUE
        ELSE IF horizontalOverlap /\ ~verticalOverlap THEN verticalGap > minGap * Q
        ELSE IF ~horizontalOverlap /\ verticalOverlap THEN horizontalGap > minGap * Q
        ELSE FALSE

\* frames in pixels, border dimensions in quarter pixels, minGap in pixels
validateBorderGap(frame1, frame2, border1Dimensions, border2Dimensions, minGap) ==
    LET border1Space == calculateTotalBorderSpace(border1Dimensions)
        border2Space == calculateTotalBorderSpace(border2Dimensions)
        frame1Left == frame1.x * Q - border1Space
        frame1Right == (frame1.x + frame1.width) * Q + border1Space
        frame1Top == frame1.y * Q - border1Space
        frame1Bottom == (frame1.y + frame1.height) * Q + border1Space
        frame2Left == frame2.x * Q - border2Space
        frame2Right == (frame2.x + frame2.width) * Q + border2Space
        frame2Top == frame2.y * Q - border2Space
        frame2Bottom == (frame2.y + frame2.height) * Q + border2Space
        horizontalGap == Min(Abs(frame1Right - frame2Left), Abs(frame2Right - frame1Left))
        verticalGap == Min(Abs(frame1Bottom - frame2Top), Abs(frame2Bottom - frame1Top))
        horizontalOverlap == extentsOverlap(frame1Left, frame1Right, frame2Left, frame2Right)
        verticalOverlap == extentsOverlap(frame1Top, frame1Bottom, frame2Top, frame2Bottom)
    IN  IF ~horizontalOverlap /\ ~verticalOverlap THEN TRUE
        ELSE IF horizontalOverlap /\ ~verticalOverlap THEN verticalGap >= minGap * Q
        ELSE IF ~horizontalOverlap /\ verticalOverlap THEN horizontalGap >= minGap * Q
        ELSE FALSE

\* mutant: the right and bottom edges are compared with the wrong canvas sides
validateBorderWithinCanvasSwapped(frame, borderDimensions, canvasWidth, canvasHeight) ==
    LET borderSpace == calculateTotalBorderSpace(borderDimensions)
        left == frame.x * Q - borderSpace
        right == (frame.x + frame.width) * Q + borderSpace
        top == frame.y * Q - borderSpace
        bottom == (frame.y + frame.height) * Q + borderSpace
    IN  left >= 0 /\ right <= canvasHeight * Q /\ top >= 0 /\ bottom <= canvasWidth * Q

validateBorderWithinCanvas(frame, borderDimensions, canvasWidth, canvasHeight) ==
    LET borderSpace == calculateTotalBorderSpace(borderDimensions)
        left == frame.x * Q - borderSpace
        right == (frame.x + frame.width) * Q + borderSpace
        top == frame.y * Q - borderSpace
        bottom == (frame.y + frame.height) * Q + borderSpace
    IN  left >= 0 /\ right <= canvasWidth * Q /\ top >= 0 /\ bottom <= canvasHeight * Q

\* for i in 0..n-1, for j in i+1..n-1: the pairs <<i, j>> (1-based) in loop order
contentPairs(n) ==
    SelectSeq([k \in 1..(n * n) |-> << ((k - 1) \div n) + 1, ((k - 1) % n) + 1 >>],
              LAMBDA p : p[1] < p[2])

\* The checks of validateLayoutBorders in the order the source runs them;
\* i and j are content-box numbers (1..4), 0 where the check has none.
layoutBorderChecks(l, glowConfig) ==
    LET artworkBorderDims == getArtworkBorderDimensions(glowConfig)
        textBoxBorderDims == getTextBoxBorderDimensions(glowConfig)
        cb == l.contentBoxes
        within(kind, i, frame, dims) ==
            [kind |-> kind, i |-> i, j |-> 0,
             ok |-> validateBorderWithinCanvas(frame, dims, l.canvas.width, l.canvas.height)]
        gapCheck(kind, i, j, f1, f2, d1, d2) ==
            [kind |-> kind, i |-> i, j |-> j,
             ok |-> validateBorderGap(f1, f2, d1, d2, MIN_BORDER_GAP)]
    IN  << within("artworkCanvas", 0, l.artworkFrame, artworkBorderDims),
           within("titleCanvas", 0, l.titleBox, textBoxBorderDims) >>
        \o [i \in 1..Len(cb) |-> within("contentCanvas", i, cb[i], textBoxBorderDims)]
        \o << gapCheck("artworkTitleGap", 0, 0, l.artworkFrame, l.titleBox,
                       artworkBorderDims, textBoxBorderDims) >>
        \o [i \in 1..Len(cb) |-> gapCheck("titleContentGap", i, 0, l.titleBox, cb[i],
                                          textBoxBorderDims, textBoxBorderDims)]
        \o [k \in 1..Len(contentPairs(Len(cb))) |->
              LET p == contentPairs(Len(cb))[k]
              IN  gapCheck("contentGap", p[1], p[2], cb[p[1]], cb[p[2]],
                           textBoxBorderDims, textBoxBorderDims)]

validateLayoutBorders(l, glowConfig) ==
    LET errors == SelectSeq(layoutBorderChecks(l, glowConfig), LAMBDA c : ~c.ok)
    IN  [valid |-> Len(errors) = 0, errors |-> errors]

-----------------------------------------------------------------------------
(* Double-line border layers (SVG geometry in quarter pixels)              *)

\* A stroked, unfilled <rect>: the path rectangle, its stroke width, its
\* corner radius and whether the outer-glow filter is attached to it
SvgRect(x, y, w, h, strokeWidth, radius, filter) ==
    [x |-> x, y |-> y, width |-> w, height |-> h,
     strokeWidth |-> strokeWidth, radius |-> radius, filter |-> filter]

\* the <filter> element: present only when glow.opacity > 0
glowFilterDef(glow) ==
    IF glow.opacity > 0
    THEN << [stdDeviation |-> glow.blur, floodOpacity |-> glow.opacity, dilate |-> glow.spread] >>
    ELSE << >>

createDoubleLineBorderSvg(width, height, style, glowConfig) ==
    LET glow == glowOrDefault(glowConfig)
        outerHalf == style.outerWidth \div 2
        innerLineOffset == style.outerWidth + style.gap
        innerHalf == style.innerWidth \div 2
        innerStrokeOffset == innerLineOffset + style.innerWidth + Q
        half == Q \div 2
    IN  [width |-> width, height |-> height,
         filterDef |-> glowFilterDef(glow),
         gradientStops |-> style.outerGradient,
         innerLineColor |-> style.outerGradient[(Len(style.outerGradient) \div 2) + 1],
         innerStrokeOpacity |-> style.innerStrokeOpacity,
         outerLine |-> SvgRect(outerHalf, outerHalf,
                               width - style.outerWidth, height - style.outerWidth,
                               style.outerWidth, 0, glow.opacity > 0),
         innerLine |-> SvgRect(innerLineOffset + innerHalf, innerLineOffset + innerHalf,
                               width - (innerLineOffset + innerHalf) * 2,
                               height - (innerLineOffset + innerHalf) * 2,
                               style.innerWidth, 0, FALSE),
         innerStroke |-> SvgRect(innerStrokeOffset + half, innerStrokeOffset + half,
                                 width - (innerStrokeOffset + half) * 2,
                                 height - (innerStrokeOffset + half) * 2,
                                 Q, 0, FALSE)]

createDoubleLineRoundedBorderSvg(width, height, style, borderRadius, glowConfig) ==
    LET glow == glowOrDefault(glowConfig)
        outerHalf == style.outerWidth \div 2
        innerLineOffset == style.outerWidth + style.gap
        innerHalf == style.innerWidth \div 2
        innerStrokeOffset == innerLineOffset + style.innerWidth + Q
        half == Q \div 2
        outerRadius == borderRadius
        innerLineRadius == Max(0, borderRadius - style.outerWidth - style.gap)
        innerStrokeRadius == Max(0, innerLineRadius - style.innerWidth - Q)
    IN  [width |-> width, height |-> height,
         filterDef |-> glowFilterDef(glow),
         gradientStops |-> style.outerGradient,
         innerLineColor |-> style.outerGradient[(Len(style.outerGradient) \div 2) + 1],
         innerStrokeOpacity |-> style.innerStrokeOpacity,
         outerLine |-> SvgRect(outerHalf, outerHalf,
                               width - style.outerWidth, height - style.outerWidth,
                               style.outerWidth, outerRadius, glow.opacity > 0),
         innerLine |-> SvgRect(innerLineOffset + innerHalf, innerLineOffset + innerHalf,
                               width - (innerLineOffset + innerHalf) * 2,
                               height - (innerLineOffset + innerHalf) * 2,
                               style.innerWidth, innerLineRadius, FALSE),
         innerStroke |-> SvgRect(innerStrokeOffset + half, innerStrokeOffset + half,
                                 width - (innerStrokeOffset + half) * 2,
                                 height - (innerStrokeOffset + half) * 2,
                                 Q, innerStrokeRadius, FALSE)]

\* frame in pixels; the returned x, y and the SVG are in quarter pixels
renderDoubleLineArtworkBorder(frame, glowConfig) ==
    LET style == ENHANCED_ARTWORK_BORDER
        glow == glowOrDefault(glowConfig)
        totalBorderWidth == style.outerWidth + style.gap + style.innerWidth + 2 * Q
        glowPadding == glowPaddingOf(glow) * Q
        totalWidth == frame.width * Q + totalBorderWidth * 2 + glowPadding * 2
        totalHeight == frame.height * Q + totalBorderWidth * 2 + glowPadding * 2
    IN  [buffer |-> createDoubleLineBorderSvg(totalWidth, totalHeight, style, <<glow>>),
         x |-> frame.x * Q - totalBorderWidth - glowPadding,
         y |-> frame.y * Q - totalBorderWidth - glowPadding]

renderDoubleLineTextBoxBorder(frame, glowConfig) ==
    LET style == ENHANCED_TEXTBOX_BORDER
        borderRadius == TEXT_BOX_BORDER_RADIUS * Q
        glow == glowOrDefault(glowConfig)
        totalBorderWidth == style.outerWidth + style.gap + style.innerWidth + 2 * Q
        glowPadding == glowPaddingOf(glow) * Q
        totalWidth == frame.width * Q + totalBorderWidth * 2 + glowPadding * 2
        totalHeight == frame.height * Q + totalBorderWidth * 2 + glowPadding * 2
    IN  [buffer |-> createDoubleLineRoundedBorderSvg(totalWidth, totalHeight, style,
                                                     borderRadius, <<glow>>),
         x |-> frame.x * Q - totalBorderWidth - glowPadding,
         y |-> frame.y * Q - totalBorderWidth - glowPadding]

-----------------------------------------------------------------------------
(* Text entries: a text is a sequence of characters                        *)

\* The characters String.prototype.trim strips: the WhiteSpace and
\* LineTerminator code points of ECMAScript.  A character that cannot be
\* written in a string of this module is named by its code point.
Whitespace ==
    { " ", "\n", "\t", "\r", "\f", "U+000B", "U+00A0", "U+1680",
      "U+2000", "U+2001", "U+2002", "U+2003", "U+2004", "U+2005", "U+2006",
      "U+2007", "U+2008", "U+2009", "U+200A", "U+2028", "U+2029", "U+202F",
      "U+205F", "U+3000", "U+FEFF" }

RECURSIVE trimStart(_)
trimStart(t) == IF t # << >> /\ Head(t) \in Whitespace THEN trimStart(Tail(t)) ELSE t

RECURSIVE trimEnd(_)
trimEnd(t) ==
    IF t # << >> /\ t[Len(t)] \in Whitespace THEN trimEnd(SubSeq(t, 1, Len(t) - 1)) ELSE t

\* String.prototype.trim
trim(t) == trimEnd(trimStart(t))

\* textBoxes.find(tb => tb.id === id): <<>> when no entry matches, else
\* << the first matching entry >>
findTextConfig(textBoxes, id) ==
    LET hits == {i \in DOMAIN textBoxes : textBoxes[i].id = id}
    IN  IF hits = {} THEN << >>
        ELSE << textBoxes[CHOOSE i \in hits : \A j \in hits : i <= j] >>

\* textConfig?.text || ''
textOf(textConfig) == IF textConfig = << >> THEN << >> ELSE textConfig[1].text

-----------------------------------------------------------------------------
(* Layers.  A layer is what one sharp composite entry puts on the card:   *)
(* its kind, the panel id ("" for the card-level layers), its placement   *)
(* and size in pixels and the description of its input image.             *)

Layer(kind, id, left, top, w, h, input) ==
    [kind |-> kind, id |-> id, left |-> left, top |-> top,
     width |-> w, height |-> h, input |-> input]

\* sharp(backgroundBuffer).resize(canvas.width, canvas.height, cover, center)
backgroundLayer(l) ==
    Layer("background", "", 0, 0, l.canvas.width, l.canvas.height,
          [fit |-> "cover", position |-> "center"])

\* resizeAndCropArtwork into the frame, composited at the frame position
artworkLayer(l, cropAnchor) ==
    Layer("artwork", "", l.artworkFrame.x, l.artworkFrame.y,
          l.artworkFrame.width, l.artworkFrame.height,
          [fit |-> "cover", position |-> getCropPosition(cropAnchor)])

\* a border layer from the result of a renderDoubleLine...Border call:
\* left: Math.max(0, border.x), top: Math.max(0, border.y)
borderLayer(kind, id, border) ==
    Layer(kind, id, Max(0, border.x) \div Q, Max(0, border.y) \div Q,
          border.buffer.width \div Q, border.buffer.height \div Q, border.buffer)

artworkBorderLayer(l, glowConfig) ==
    borderLayer("artworkBorder", "", renderDoubleLineArtworkBorder(l.artworkFrame, glowConfig))

panelBackgroundLayer(box) ==
    Layer("panelBackground", box.id, box.x, box.y, box.width, box.height,
          [shape |-> "roundedPanel"])

panelBorderLayer(box, glowConfig) ==
    borderLayer("panelBorder", box.id, renderDoubleLineTextBoxBorder(box, glowConfig))

\* mutant: the border is pushed before the background
renderTextBoxBackgroundsBorderFirst(l, borderPreset, glowConfig) ==
    LET allTextBoxes == getAllTextBoxes(l)
    IN  [k \in 1..(2 * Len(allTextBoxes)) |->
            IF k % 2 = 1
            THEN panelBorderLayer(allTextBoxes[(k + 1) \div 2], glowConfig)
            ELSE panelBackgroundLayer(allTextBoxes[k \div 2])]

\* variant: the border of every text box is drawn in the preset's colours
renderTextBoxBackgroundsPresetStyled(l, borderPreset, glowConfig) ==
    LET allTextBoxes == getAllTextBoxes(l)
        presetStyle == IF borderPreset # "undefined"
                       THEN << [gradientColors |-> BORDER_PRESETS[borderPreset].gradientColors,
                                highlightColor |-> BORDER_PRESETS[borderPreset].highlightColor] >>
                       ELSE Undefined
        styled(layer) ==
            IF presetStyle = Undefined THEN layer
            ELSE [layer EXCEPT !.input.gradientStops = presetStyle[1].gradientColors]
    IN  [k \in 1..(2 * Len(allTextBoxes)) |->
            IF k % 2 = 1
            THEN panelBackgroundLayer(allTextBoxes[(k + 1) \div 2])
            ELSE styled(panelBorderLayer(allTextBoxes[k \div 2], glowConfig))]

\* the composites array of renderTextBoxBackgrounds: for every text box in
\* getAllTextBoxes order, its background and then its border; the preset
\* style is looked up and handed to nothing
renderTextBoxBackgrounds(l, borderPreset, glowConfig) ==
    LET allTextBoxes == getAllTextBoxes(l)
        presetStyle == IF borderPreset # "undefined"
                       THEN << [gradientColors |-> BORDER_PRESETS[borderPreset].gradientColors,
                                highlightColor |-> BORDER_PRESETS[borderPreset].highlightColor] >>
                       ELSE Undefined
    IN  [k \in 1..(2 * Len(allTextBoxes)) |->
            IF k % 2 = 1
            THEN panelBackgroundLayer(allTextBoxes[(k + 1) \div 2])
            ELSE panelBorderLayer(allTextBoxes[k \div 2], glowConfig)]

\* mutant: the text is not trimmed before the emptiness test
hasGlyphLayerUntrimmed(textBoxes, box) == textOf(findTextConfig(textBoxes, box.id)) # << >>

\* whether renderTextContent renders the box: its first entry has text
\* that is not blank
hasGlyphLayer(textBoxes, box) == trim(textOf(findTextConfig(textBoxes, box.id))) # << >>

textLayer(textBoxes, box) ==
    Layer("text", box.id, box.x, box.y, box.width, box.height,
          [text |-> textOf(findTextConfig(textBoxes, box.id))])

\* the composites array of renderTextContent
renderTextContent(textBoxes, l) ==
    LET allTextBoxes == getAllTextBoxes(l)
        rendered == SelectSeq(allTextBoxes, LAMBDA box : hasGlyphLayer(textBoxes, box))
    IN  [k \in 1..Len(rendered) |-> textLayer(textBoxes, rendered[k])]

-----------------------------------------------------------------------------
(* composeCard: option resolution                                          *)

\* layoutMode = 'landscape' when the option is omitted
layoutModeOf(o) == IF o.layoutMode = "undefined" THEN "landscape" ELSE o.layoutMode

\* variant: an explicit legacy mode wins over the variant
baseLayoutOfModeFirst(o) ==
    IF o.layoutMode # "undefined"
    THEN getLayoutConfig(o.layoutMode)
    ELSE IF o.layoutVariant # "undefined"
    THEN getLayoutConfigByVariant(o.layoutVariant)
    ELSE getLayoutConfig("landscape")

\* the layout before scaling: the variant when given, else the legacy mode
baseLayoutOf(o) ==
    IF o.layoutVariant # "undefined"
    THEN getLayoutConfigByVariant(o.layoutVariant)
    ELSE getLayoutConfig(layoutModeOf(o))

effectiveLayoutModeOf(o) ==
    IF o.layoutVariant # "undefined"
    THEN getLayoutModeFromVariant(o.layoutVariant)
    ELSE layoutModeOf(o)

\* cropAnchor || getDefaultCropAnchor(effectiveLayoutMode)
effectiveCropAnchorOf(o) ==
    IF o.cropAnchor # "undefined"
    THEN o.cropAnchor
    ELSE getDefaultCropAnchor(effectiveLayoutModeOf(o))

\* if (scalePreset && scalePreset !== 'standard') layout = applyScalePreset(...)
composeLayout(o) ==
    IF o.scalePreset # "undefined" /\ o.scalePreset # "standard"
    THEN applyScalePreset(baseLayoutOf(o), o.scalePreset)
    ELSE baseLayoutOf(o)

\* glowIntensity ? getGlowConfig(glowIntensity) : undefined
composeGlowConfig(o) ==
    IF o.glowIntensity # "undefined" THEN << getGlowConfig(o.glowIntensity) >> ELSE Undefined

\* mutant: a failed validation aborts the call
onLayoutValidationStrict(v) == IF v.valid THEN "continue" ELSE "throw"

\* What composeCard does with the validation result: it only logs a warning
onLayoutValidation(v) == "continue"

-----------------------------------------------------------------------------
(* Decorative frame: presets, asset loader, tiles                          *)

FramePresetIds == {"cyber", "classic", "minimal", "fantasy", "battle", "none"}

DECORATIVE_PRESET_IDS == {"cyber", "classic", "minimal", "fantasy", "battle"}

FramePresetConfig(id, cornerAsset, borderAsset, cornerSize, borderThickness, insetOffset) ==
    [id |-> id, cornerAsset |-> cornerAsset, borderAsset |-> borderAsset,
     cornerSize |-> cornerSize, borderThickness |-> borderThickness,
     insetOffset |-> insetOffset]

FRAME_PRESETS ==
    [id \in FramePresetIds |->
        CASE id = "cyber" ->
               FramePresetConfig(id, "frames/cyber/corner.svg", "frames/cyber/border.svg", 100, 20, 10)
          [] id = "classic" ->
               FramePresetConfig(id, "frames/classic/corner.svg", "frames/classic/border.svg", 110, 25, 8)
          [] id = "minimal" ->
               FramePresetConfig(id, "frames/minimal/corner.svg", "frames/minimal/border.svg", 80, 15, 12)
          [] id = "fantasy" ->
               FramePresetConfig(id, "frames/fantasy/corner.svg", "frames/fantasy/border.svg", 105, 22, 10)
          [] id = "battle" ->
               FramePresetConfig(id, "frames/battle/corner.svg", "frames/battle/border.svg", 95, 24, 8)
          [] id = "none" -> FramePresetConfig(id, "", "", 0, 0, 0)]

\* the names a plain object inherits from Object.prototype
OBJECT_PROTOTYPE_KEYS ==
    { "constructor", "hasOwnProperty", "isPrototypeOf", "propertyIsEnumerable",
      "toLocaleString", "toString", "valueOf", "__proto__", "__defineGetter__",
      "__defineSetter__", "__lookupGetter__", "__lookupSetter__" }

\* FRAME_PRESETS[presetId], the property the code reads from the table:
\* << preset >> for an id of the table, << member >> for a name inherited
\* from Object.prototype (a function or an object, which has none of the
\* fields of a preset), << >> for undefined
framePresetAt(presetId) ==
    IF presetId \in FramePresetIds THEN << FRAME_PRESETS[presetId] >>
    ELSE IF presetId \in OBJECT_PROTOTYPE_KEYS THEN << [inherited |-> presetId] >>
    ELSE << >>

\* variant: 'none' counts as a decorative preset too
isDecorativePresetAlways(presetId) == TRUE

isDecorativePreset(presetId) == presetId # "none"

\* the asset paths the presets name
AssetPaths ==
    { FRAME_PRESETS[id].cornerAsset : id \in DECORATIVE_PRESET_IDS }
       \cup { FRAME_PRESETS[id].borderAsset : id \in DECORATIVE_PRESET_IDS }

\* a cache slot without an entry
Absent == [source |-> "absent"]

\* the PNG bytes of a file's content: read as they are from a .png,
\* converted by sharp from an .svg; the 4 quadrants of the picture are told
\* apart so that mirroring shows
AssetBytes(assetPath, content) ==
    [source |-> assetPath, px |-> << 1, 2, 3, 4 >>, content |-> content]

EmptyCache == [p \in AssetPaths \cup {""} |-> Absent]

\* !assetPath || assetPath.trim() === '': the path is empty, or every one
\* of its characters is one that trim strips.  In a path, as in a text, a
\* character that cannot be written in a string of this module is named
\* by its code point: "U+00A0" is the path of one no-break space, and no
\* path holds the six characters of such a name themselves.
RECURSIVE isBlankPath(_)
isBlankPath(assetPath) ==
    IF Len(assetPath) = 0 THEN TRUE
    ELSE IF SubSeq(assetPath, 1, 1) \in Whitespace
    THEN isBlankPath(SubSeq(assetPath, 2, Len(assetPath)))
    ELSE IF Len(assetPath) >= 6 /\ SubSeq(assetPath, 1, 6) \in Whitespace
    THEN isBlankPath(SubSeq(assetPath, 7, Len(assetPath)))
    ELSE FALSE

\* the file-system access validateAssetExists makes: none for a path that
\* is empty or blank
existsSync(assetPath) ==
    IF isBlankPath(assetPath) THEN << >> ELSE << << "exists", assetPath >> >>

\* variant: without the test for an empty or blank path; the empty path
\* then names the asset root itself, which exists
validateAssetExistsNoEmptyCheck(assetPath, files) == assetPath = "" \/ assetPath \in files

\* validateAssetExists: a path that is empty or blank never exists, and
\* the disk is not looked at; files is the set of asset files on disk
validateAssetExists(assetPath, files) == ~isBlankPath(assetPath) /\ assetPath \in files

\* path.extname(assetPath).toLowerCase(): every asset of the catalogue is
\* an .svg file; a .png and a .txt file stand for the other formats
extname(assetPath) ==
    IF assetPath \in AssetPaths THEN ".svg"
    ELSE IF assetPath = "frames/custom/corner.png" THEN ".png"
    ELSE IF assetPath = "frames/cyber/notes.txt" THEN ".txt"
    ELSE ""

\* the format of a lower-cased extension: 'svg', 'png' or 'unknown'
formatOfExtension ==
    [ext \in {".svg", ".png", ".txt", ""} |->
        IF ext = ".svg" THEN "svg" ELSE IF ext = ".png" THEN "png" ELSE "unknown"]

getAssetFormat(assetPath) == formatOfExtension[extname(assetPath)]

\* sharp: resize with fit 'fill' keeps the picture and sets its size
resizeFill(buffer, width, height) ==
    [source |-> buffer.source, px |-> buffer.px, width |-> width, height |-> height]

\* sharp flop: mirror about the vertical axis (left and right swap)
flop(image) == [image EXCEPT !.px = << @[2], @[1], @[4], @[3] >>]

\* sharp flip: mirror about the horizontal axis (top and bottom swap)
flip(image) == [image EXCEPT !.px = << @[3], @[4], @[1], @[2] >>]

\* sharp rotate(180)
rotate180(image) == [image EXCEPT !.px = << @[4], @[3], @[2], @[1] >>]

\* sharp rotate(90), clockwise: width and height swap
rotate90(image) ==
    [image EXCEPT !.px = << @[3], @[1], @[4], @[2] >>,
                  !.width = image.height, !.height = image.width]

CornerPositions == {"top-left", "top-right", "bottom-left", "bottom-right"}

ALL_CORNERS == << "top-left", "top-right", "bottom-left", "bottom-right" >>

ALL_BORDERS == << "top", "right", "bottom", "left" >>

\* variant: the top-right and bottom-left transforms are exchanged
CORNER_TRANSFORMS_EXCHANGED ==
    [position \in CornerPositions |->
        CASE position = "top-left" -> [flipHorizontal |-> FALSE, flipVertical |-> FALSE]
          [] position = "top-right" -> [flipHorizontal |-> FALSE, flipVertical |-> TRUE]
          [] position = "bottom-left" -> [flipHorizontal |-> TRUE, flipVertical |-> FALSE]
          [] position = "bottom-right" -> [flipHorizontal |-> TRUE, flipVertical |-> TRUE]]

CORNER_TRANSFORMS ==
    [position \in CornerPositions |->
        CASE position = "top-left" -> [flipHorizontal |-> FALSE, flipVertical |-> FALSE]
          [] position = "top-right" -> [flipHorizontal |-> TRUE, flipVertical |-> FALSE]
          [] position = "bottom-left" -> [flipHorizontal |-> FALSE, flipVertical |-> TRUE]
          [] position = "bottom-right" -> [flipHorizontal |-> TRUE, flipVertical |-> TRUE]]

\* the scale factor of a layout, in percent: 95 for the portrait variants
getScaleFactorForLayout(layoutVariant) ==
    IF layoutVariant = "undefined" THEN 100
    ELSE IF layoutVariant \in {"portrait-square", "portrait-flat"} THEN 95
    ELSE 100

\* Math.round(n * scaleFactor), scaleFactor in percent
roundScaled(n, scaleFactor) == MathRound(n * scaleFactor, 100)

\* variant: the far corners sit on the card edge, without the inset
calculateCornerPositionFlush(position, cardWidth, cardHeight, cornerSize, insetOffset) ==
    CASE position = "top-left" -> [x |-> insetOffset, y |-> insetOffset]
      [] position = "top-right" -> [x |-> cardWidth - cornerSize, y |-> insetOffset]
      [] position = "bottom-left" -> [x |-> insetOffset, y |-> cardHeight - cornerSize]
      [] position = "bottom-right" ->
           [x |-> cardWidth - cornerSize, y |-> cardHeight - cornerSize]

calculateCornerPosition(position, cardWidth, cardHeight, cornerSize, insetOffset) ==
    CASE position = "top-left" -> [x |-> insetOffset, y |-> insetOffset]
      [] position = "top-right" -> [x |-> cardWidth - cornerSize - insetOffset, y |-> insetOffset]
      [] position = "bottom-left" -> [x |-> insetOffset, y |-> cardHeight - cornerSize - insetOffset]
      [] position = "bottom-right" ->
           [x |-> cardWidth - cornerSize - insetOffset,
            y |-> cardHeight - cornerSize - insetOffset]

\* variant: the strips run from inset to inset, across the corners
calculateBorderPositionAcross(position, cardWidth, cardHeight, cornerSize, borderThickness, insetOffset) ==
    CASE position = "top" ->
           [x |-> insetOffset, y |-> insetOffset,
            width |-> cardWidth - 2 * insetOffset, height |-> borderThickness]
      [] position = "bottom" ->
           [x |-> insetOffset, y |-> cardHeight - borderThickness - insetOffset,
            width |-> cardWidth - 2 * insetOffset, height |-> borderThickness]
      [] position = "left" ->
           [x |-> insetOffset, y |-> insetOffset,
            width |-> borderThickness, height |-> cardHeight - 2 * insetOffset]
      [] position = "right" ->
           [x |-> cardWidth - borderThickness - insetOffset, y |-> insetOffset,
            width |-> borderThickness, height |-> cardHeight - 2 * insetOffset]

calculateBorderPosition(position, cardWidth, cardHeight, cornerSize, borderThickness, insetOffset) ==
    LET borderStart == cornerSize + insetOffset
    IN  CASE position = "top" ->
               [x |-> borderStart, y |-> insetOffset,
                width |-> cardWidth - 2 * borderStart, height |-> borderThickness]
          [] position = "bottom" ->
               [x |-> borderStart, y |-> cardHeight - borderThickness - insetOffset,
                width |-> cardWidth - 2 * borderStart, height |-> borderThickness]
          [] position = "left" ->
               [x |-> insetOffset, y |-> borderStart,
                width |-> borderThickness, height |-> cardHeight - 2 * borderStart]
          [] position = "right" ->
               [x |-> cardWidth - borderThickness - insetOffset, y |-> borderStart,
                width |-> borderThickness, height |-> cardHeight - 2 * borderStart]

\* renderCornerOrnament once loadAsset has returned cornerBuffer: the
\* corner asset resized to the scaled corner size and mirrored as
\* CORNER_TRANSFORMS says
renderCornerOrnament(cornerBuffer, preset, position, scaleFactor) ==
    LET scaledSize == roundScaled(preset.cornerSize, scaleFactor)
        transform == CORNER_TRANSFORMS[position]
        image == resizeFill(cornerBuffer, scaledSize, scaledSize)
    IN  IF transform.flipHorizontal /\ transform.flipVertical THEN rotate180(image)
        ELSE IF transform.flipHorizontal THEN flop(image)
        ELSE IF transform.flipVertical THEN flip(image)
        ELSE image

\* renderBorderStrip once loadAsset has returned borderBuffer: the border
\* asset resized to length x (the preset's thickness, scaled); left and
\* right strips are then turned by 90 degrees
renderBorderStrip(borderBuffer, preset, position, length, scaleFactor) ==
    LET scaledThickness == roundScaled(preset.borderThickness, scaleFactor)
        isVertical == position \in {"left", "right"}
    IN  IF isVertical
        THEN rotate90(resizeFill(borderBuffer, length, scaledThickness))
        ELSE resizeFill(borderBuffer, length, scaledThickness)

\* validatePresetAssets: both asset files must exist; the result is the
\* error thrown ("" for none) and the file-system accesses made. A value
\* without a cornerAsset field has the path undefined, which
\* validateAssetExists turns down at !assetPath before any file access
validatePresetAssets(preset, files) ==
    IF "cornerAsset" \notin DOMAIN preset
    THEN [error |-> "asset not found", log |-> << >>]
    ELSE IF ~validateAssetExists(preset.cornerAsset, files)
    THEN [error |-> "asset not found", log |-> existsSync(preset.cornerAsset)]
    ELSE IF ~validateAssetExists(preset.borderAsset, files)
    THEN [error |-> "asset not found",
          log |-> existsSync(preset.cornerAsset) \o existsSync(preset.borderAsset)]
    ELSE [error |-> "",
          log |-> existsSync(preset.cornerAsset) \o existsSync(preset.borderAsset)]

\* an optional number of FrameRenderOptions: << >> when omitted, << n >> when given
orElse(optional, default) == IF optional = << >> THEN default ELSE optional[1]

\* one entry of compositeInputs; part names the loop pass that pushed it
CompositeInput(part, input, left, top) ==
    [part |-> part, input |-> input, left |-> left, top |-> top]

\* variant: the inset is kept within 5..20 (as getFrameRenderInfo reports it)
effectiveInsetOffsetFrom5(insetOffset) == Max(5, Min(20, insetOffset))

\* Math.max(0, Math.min(20, insetOffset))
effectiveInsetOffsetOf(insetOffset) == Max(0, Min(20, insetOffset))

\* the locals renderFrame computes from its options before its loops
renderFrameLocals(options) ==
    [preset |-> FRAME_PRESETS[options.presetId],
     scaleFactor |-> getScaleFactorForLayout(options.layoutVariant),
     cardWidth |-> options.cardWidth,
     cardHeight |-> options.cardHeight,
     borderThickness |-> orElse(options.borderThickness,
                                FRAME_PRESETS[options.presetId].borderThickness),
     cornerSize |-> roundScaled(FRAME_PRESETS[options.presetId].cornerSize,
                                getScaleFactorForLayout(options.layoutVariant)),
     effectiveInsetOffset |->
         effectiveInsetOffsetOf(orElse(options.insetOffset,
                                       FRAME_PRESETS[options.presetId].insetOffset))]

\* the passes of renderFrame's two loops, in order: the 4 corners, then
\* the 4 edge strips
FRAME_PASSES == ALL_CORNERS \o ALL_BORDERS

\* borderDims of the pass for an edge strip
borderDimsOf(c, position) ==
    calculateBorderPosition(position, c.cardWidth, c.cardHeight, c.cornerSize,
                            roundScaled(c.borderThickness, c.scaleFactor),
                            c.effectiveInsetOffset)

\* borderLength of the pass for an edge strip
borderLengthOf(c, position) ==
    IF position \in {"top", "bottom"}
    THEN borderDimsOf(c, position).width ELSE borderDimsOf(c, position).height

\* the asset pass i loads
passAsset(c, i) ==
    IF i <= Len(ALL_CORNERS) THEN c.preset.cornerAsset ELSE c.preset.borderAsset

\* what pass i pushes to compositeInputs once its tile is rendered from
\* the loaded buffer
passInput(c, i, buffer) ==
    IF i <= Len(ALL_CORNERS)
    THEN CompositeInput(FRAME_PASSES[i],
                        renderCornerOrnament(buffer, c.preset, FRAME_PASSES[i], c.scaleFactor),
                        calculateCornerPosition(FRAME_PASSES[i], c.cardWidth, c.cardHeight,
                                                c.cornerSize, c.effectiveInsetOffset).x,
                        calculateCornerPosition(FRAME_PASSES[i], c.cardWidth, c.cardHeight,
                                                c.cornerSize, c.effectiveInsetOffset).y)
    ELSE CompositeInput(FRAME_PASSES[i],
                        renderBorderStrip(buffer, c.preset, FRAME_PASSES[i],
                                          borderLengthOf(c, FRAME_PASSES[i]), c.scaleFactor),
                        borderDimsOf(c, FRAME_PASSES[i]).x,
                        borderDimsOf(c, FRAME_PASSES[i]).y)

\* A number of getFrameRenderInfo that may be NaN: << >> for NaN, << n >>
\* for n. Arithmetic on NaN gives NaN.
jsMinus(a, b) == IF a = << >> \/ b = << >> THEN << >> ELSE << a[1] - b[1] >>

jsPlus(a, b) == IF a = << >> \/ b = << >> THEN << >> ELSE << a[1] + b[1] >>

jsTimes(a, b) == IF a = << >> \/ b = << >> THEN << >> ELSE << a[1] * b[1] >>

\* the number as it is reported
jsNumber(a) == IF a = << >> THEN "NaN" ELSE a[1]

\* calculateCornerPosition on a corner size and an inset that may be NaN
calculateCornerPositionOfNaN(position, cardWidth, cardHeight, cornerSize, insetOffset) ==
    CASE position = "top-left" -> [x |-> jsNumber(insetOffset), y |-> jsNumber(insetOffset)]
      [] position = "top-right" ->
           [x |-> jsNumber(jsMinus(jsMinus(<< cardWidth >>, cornerSize), insetOffset)),
            y |-> jsNumber(insetOffset)]
      [] position = "bottom-left" ->
           [x |-> jsNumber(insetOffset),
            y |-> jsNumber(jsMinus(jsMinus(<< cardHeight >>, cornerSize), insetOffset))]
      [] position = "bottom-right" ->
           [x |-> jsNumber(jsMinus(jsMinus(<< cardWidth >>, cornerSize), insetOffset)),
            y |-> jsNumber(jsMinus(jsMinus(<< cardHeight >>, cornerSize), insetOffset))]

\* the extent of a strip between its corners: side - 2 * borderStart
spanOfNaN(side, borderStart) == jsNumber(jsMinus(<< side >>, jsTimes(<< 2 >>, borderStart)))

\* calculateBorderPosition on a corner size, a thickness and an inset that
\* may be NaN
calculateBorderPositionOfNaN(position, cardWidth, cardHeight, cornerSize, borderThickness, insetOffset) ==
    CASE position = "top" ->
           [x |-> jsNumber(jsPlus(cornerSize, insetOffset)), y |-> jsNumber(insetOffset),
            width |-> spanOfNaN(cardWidth, jsPlus(cornerSize, insetOffset)),
            height |-> jsNumber(borderThickness)]
      [] position = "bottom" ->
           [x |-> jsNumber(jsPlus(cornerSize, insetOffset)),
            y |-> jsNumber(jsMinus(jsMinus(<< cardHeight >>, borderThickness), insetOffset)),
            width |-> spanOfNaN(cardWidth, jsPlus(cornerSize, insetOffset)),
            height |-> jsNumber(borderThickness)]
      [] position = "left" ->
           [x |-> jsNumber(insetOffset), y |-> jsNumber(jsPlus(cornerSize, insetOffset)),
            width |-> jsNumber(borderThickness),
            height |-> spanOfNaN(cardHeight, jsPlus(cornerSize, insetOffset))]
      [] position = "right" ->
           [x |-> jsNumber(jsMinus(jsMinus(<< cardWidth >>, borderThickness), insetOffset)),
            y |-> jsNumber(jsPlus(cornerSize, insetOffset)),
            width |-> jsNumber(borderThickness),
            height |-> spanOfNaN(cardHeight, jsPlus(cornerSize, insetOffset))]

\* Math.round(n * scaleFactor) on an n that may be undefined
roundScaledOfNaN(n, scaleFactor) ==
    IF n = << >> THEN << >> ELSE << roundScaled(n[1], scaleFactor) >>

\* Math.max(5, Math.min(20, insetOffset)) on an inset that may be undefined
effectiveInsetOffsetOfNaN(insetOffset) ==
    IF insetOffset = << >> THEN << >> ELSE << Max(5, Min(20, insetOffset[1])) >>

\* getFrameRenderInfo on a member inherited from Object.prototype:
\* preset.cornerSize, preset.borderThickness and preset.insetOffset are
\* undefined, so that only what the options override is a number; the
\* corner size, and every coordinate it enters, is NaN
inheritedFrameRenderInfo(options, preset) ==
    [outcome |-> "returned",
     preset |-> preset,
     scaleFactor |-> getScaleFactorForLayout(options.layoutVariant),
     effectiveCornerSize |-> "NaN",
     effectiveBorderThickness |->
         jsNumber(roundScaledOfNaN(options.borderThickness,
                                   getScaleFactorForLayout(options.layoutVariant))),
     effectiveInsetOffset |-> jsNumber(effectiveInsetOffsetOfNaN(options.insetOffset)),
     corners |-> [i \in 1..Len(ALL_CORNERS) |->
                    [position |-> ALL_CORNERS[i],
                     coords |-> calculateCornerPositionOfNaN(ALL_CORNERS[i],
                                   options.cardWidth, options.cardHeight, << >>,
                                   effectiveInsetOffsetOfNaN(options.insetOffset))]],
     borders |-> [i \in 1..Len(ALL_BORDERS) |->
                    [position |-> ALL_BORDERS[i],
                     dims |-> calculateBorderPositionOfNaN(ALL_BORDERS[i],
                                 options.cardWidth, options.cardHeight, << >>,
                                 roundScaledOfNaN(options.borderThickness,
                                     getScaleFactorForLayout(options.layoutVariant)),
                                 effectiveInsetOffsetOfNaN(options.insetOffset))]]]

\* getFrameRenderInfo(options): the inset is kept within 5..20, the
\* thickness is scaled and rounded, and every corner and strip is listed
getFrameRenderInfo(options) ==
    IF framePresetAt(options.presetId) = << >>
    THEN [outcome |-> "thrown", error |-> "invalid preset"]
    ELSE IF options.presetId \notin FramePresetIds
    THEN inheritedFrameRenderInfo(options, framePresetAt(options.presetId)[1])
    ELSE LET preset == FRAME_PRESETS[options.presetId]
             scaleFactor == getScaleFactorForLayout(options.layoutVariant)
             effectiveCornerSize == roundScaled(preset.cornerSize, scaleFactor)
             effectiveBorderThickness ==
                 roundScaled(orElse(options.borderThickness, preset.borderThickness), scaleFactor)
             effectiveInsetOffset ==
                 Max(5, Min(20, orElse(options.insetOffset, preset.insetOffset)))
         IN  [outcome |-> "returned",
              preset |-> preset,
              scaleFactor |-> scaleFactor,
              effectiveCornerSize |-> effectiveCornerSize,
              effectiveBorderThickness |-> effectiveBorderThickness,
              effectiveInsetOffset |-> effectiveInsetOffset,
              corners |-> [i \in 1..Len(ALL_CORNERS) |->
                             [position |-> ALL_CORNERS[i],
                              coords |-> calculateCornerPosition(ALL_CORNERS[i],
                                            options.cardWidth, options.cardHeight,
                                            effectiveCornerSize, effectiveInsetOffset)]],
              borders |-> [i \in 1..Len(ALL_BORDERS) |->
                             [position |-> ALL_BORDERS[i],
                              dims |-> calculateBorderPosition(ALL_BORDERS[i],
                                          options.cardWidth, options.cardHeight,
                                          effectiveCornerSize, effectiveBorderThickness,
                                          effectiveInsetOffset)]]]

-----------------------------------------------------------------------------
(* Inputs                                                                  *)

MaxEntries == 2

MaxCoord == 16

MaxMinGap == 2

MinFactor == 60

MaxFactor == 110

PanelIds == {"title", "content1", "content2", "content3", "content4"}

Texts == { << >>, << " " >>, << "\r" >>, << "U+3000" >>, << "a" >> }

TextEntries == [id : PanelIds \cup {"other"}, text : Texts]

TextLists == UNION { [1..n -> TextEntries] : n \in 0..MaxEntries }

DefaultOptions ==
    [backgroundBuffer |-> "image", artworkBuffer |-> "image", textBoxes |-> << >>,
     layoutMode |-> "undefined", layoutVariant |-> "undefined",
     glowIntensity |-> "undefined", scalePreset |-> "undefined",
     cropAnchor |-> "undefined", borderPreset |-> "undefined"]

TitleOnly == << [id |-> "title", text |-> << "a" >>] >>

AllFive ==
    << [id |-> "content4", text |-> << "a" >>], [id |-> "content3", text |-> << "a" >>],
       [id |-> "content2", text |-> << "a" >>], [id |-> "content1", text |-> << "a" >>],
       [id |-> "title", text |-> << "a" >>] >>

\* every variant (or none), scale preset (or none) and glow intensity (or none)
GeometryOptions ==
    { [DefaultOptions EXCEPT !.layoutVariant = v, !.scalePreset = s,
                             !.glowIntensity = g, !.textBoxes = t] :
        v \in LayoutVariants \cup {"undefined"},
        s \in ScalePresets \cup {"undefined"},
        g \in GlowIntensities \cup {"undefined"},
        t \in {<< >>, TitleOnly, AllFive} }

\* every state of the two image buffers
BufferOptions ==
    { [DefaultOptions EXCEPT !.backgroundBuffer = b, !.artworkBuffer = a,
                             !.glowIntensity = g, !.scalePreset = s] :
        b \in {"image", "empty", "corrupt"},
        a \in {"image", "empty", "corrupt", "nodims"},
        g \in {"undefined", "strong"},
        s \in {"undefined", "mini"} }

\* every list of at most MaxEntries text entries
TextOptions ==
    { [DefaultOptions EXCEPT !.textBoxes = t, !.layoutMode = m] :
        t \in TextLists, m \in {"undefined", "portrait"} }

\* every variant, legacy mode, crop anchor and border preset
StyleOptions ==
    { [DefaultOptions EXCEPT !.layoutVariant = v, !.layoutMode = m,
                             !.cropAnchor = c, !.borderPreset = b] :
        v \in LayoutVariants \cup {"undefined"},
        m \in LayoutModes \cup {"undefined"},
        c \in {"top", "center", "bottom", "undefined"},
        b \in {"gold", "silver", "bronze", "undefined"} }

ComposeOptions == GeometryOptions \cup BufferOptions \cup TextOptions \cup StyleOptions

BorderDims(o, g, i, s, p) ==
    [outerWidth |-> o, gap |-> g, innerWidth |-> i, innerStroke |-> s, glowPadding |-> p]

\* footprints of 0, 0.5, 1 and 2 pixels
GapBorders ==
    { BorderDims(0, 0, 0, 0, 0), BorderDims(0, Q \div 2, 0, 0, 0),
      BorderDims(Q, 0, 0, 0, 0), BorderDims(Q, 0, 0, Q, 0) }

GapInputs ==
    [frame1 : { Frame(MaxCoord \div 2, MaxCoord \div 2, 2, 3) },
     frame2 : { Frame(x, y, 2, 1) : x \in 0..MaxCoord, y \in 0..MaxCoord },
     border1 : GapBorders, border2 : GapBorders,
     minGap : 1..MaxMinGap, swapped : BOOLEAN]

NoGapInput ==
    [frame1 |-> Frame(0, 0, 0, 0), frame2 |-> Frame(0, 0, 0, 0),
     border1 |-> BorderDims(0, 0, 0, 0, 0), border2 |-> BorderDims(0, 0, 0, 0, 0),
     minGap |-> 0, swapped |-> FALSE]

\* an applyScaleFactor call on a catalogue layout
ScaleInputs == [variant : LayoutVariants, preset : {"undefined"}, factor : MinFactor..MaxFactor]

\* an applyScalePreset call on a catalogue layout
PresetInputs == [variant : LayoutVariants, preset : ScalePresets, factor : {0}]

NoScaleInput == [variant |-> "landscape-square", preset |-> "undefined", factor |-> 0]

\* the card handed to renderFrame: an image of the size the options state
CardBuffer(cardWidth, cardHeight) ==
    [source |-> "card", width |-> cardWidth, height |-> cardHeight]

\* card sides from below twice the smallest corner to the catalogue canvas;
\* every card holds a whole corner tile and its inset
CardSides == {150, 220, 240, 768, 1024}

InsetOverrides == { << >>, << -5 >>, << 0 >>, << 7 >>, << 20 >>, << 25 >> }

ThicknessOverrides == { << >>, << 15 >>, << 30 >> }

FrameOptions(presetId, cardWidth, cardHeight, layoutVariant, insetOffset, borderThickness) ==
    [presetId |-> presetId, cardWidth |-> cardWidth, cardHeight |-> cardHeight,
     layoutVariant |-> layoutVariant, insetOffset |-> insetOffset,
     borderThickness |-> borderThickness]

\* the cache after the assets of a preset were loaded once
WarmCache(presetId) ==
    [p \in AssetPaths \cup {""} |->
        IF p \in {FRAME_PRESETS[presetId].cornerAsset, FRAME_PRESETS[presetId].borderAsset} \ {""}
        THEN AssetBytes(p, 1) ELSE Absent]

\* A renderFrame call: its options, the asset files on disk and the cache
\* when it is made, and others, the number of steps other callbacks of
\* the process and the file system take while the call is suspended.

\* every preset, card size, orientation and override, on a cold cache with
\* every asset file on disk, nothing else running
GeometryFrameInputs ==
    { [options |-> FrameOptions(id, w, h, v, i, t), files |-> AssetPaths, cache |-> EmptyCache,
       others |-> 0] :
        id \in FramePresetIds, w \in CardSides, h \in CardSides,
        v \in {"undefined", "landscape-flat", "portrait-flat"},
        i \in InsetOverrides, t \in ThicknessOverrides }

\* every preset id (one that is none, and one that Object.prototype
\* defines), on a cold and on a warm cache,
\* with the asset files on disk or missing, while the cache may be cleared
\* or a file removed
LoaderFrameInputs ==
    { [options |-> FrameOptions(id, 1024, 768, v, << >>, << >>), files |-> f, cache |-> c,
       others |-> 1] :
        id \in FramePresetIds \cup {"steampunk", "constructor"},
        v \in LayoutVariants \cup {"undefined"},
        f \in {AssetPaths, {}, AssetPaths \ {"frames/cyber/border.svg"}},
        c \in {EmptyCache, WarmCache("cyber"), WarmCache("classic")} }

\* ids that name a member of Object.prototype instead of a preset, with
\* and without overrides
InheritedFrameInputs ==
    { [options |-> FrameOptions(id, 1024, 768, v, i, t), files |-> AssetPaths,
       cache |-> EmptyCache, others |-> 0] :
        id \in {"toString", "__proto__"},
        v \in {"undefined", "portrait-flat"},
        i \in InsetOverrides, t \in ThicknessOverrides }

FrameInputs == GeometryFrameInputs \cup LoaderFrameInputs \cup InheritedFrameInputs

-----------------------------------------------------------------------------
(* Image generation (qwenGenerator).  An error is its class name, its      *)
(* message as the sequence of the fragments it is concatenated from, its   *)
(* statusCode (<< >> when undefined) and its details.  The Chinese         *)
(* message texts are given in English; none of them contains "timeout".    *)

ModelInferenceError(message, statusCode, details) ==
    [name |-> "ModelInferenceError", message |-> message,
     statusCode |-> statusCode, details |-> details]

Error(message) ==
    [name |-> "Error", message |-> message, statusCode |-> << >>, details |-> ""]

NoError == [name |-> "none", message |-> << >>, statusCode |-> << >>, details |-> ""]

\* the message fragments that contain the substring 'timeout' (lower case:
\* the status text "Gateway Timeout" does not)
FragmentsWithTimeout ==
    { "Task timeout: Image generation took too long", "inference timeout" }

\* message.includes('timeout')
includesTimeout(message) == \E i \in DOMAIN message : message[i] \in FragmentsWithTimeout

\* response.statusText
statusText(status) ==
    CASE status = 400 -> "Bad Request"
      [] status = 401 -> "Unauthorized"
      [] status = 429 -> "Too Many Requests"
      [] status = 500 -> "Internal Server Error"
      [] status = 503 -> "Service Unavailable"
      [] OTHER -> "Gateway Timeout"

\* ModelInferenceError.getErrorCode
getErrorCode(e) ==
    IF e.statusCode = << 401 >> THEN "INVALID_API_KEY"
    ELSE IF e.statusCode = << 429 >> THEN "RATE_LIMIT_EXCEEDED"
    ELSE IF e.statusCode = << 503 >> THEN "SERVICE_UNAVAILABLE"
    ELSE IF e.statusCode = << 400 >> THEN "INVALID_REQUEST"
    ELSE IF includesTimeout(e.message) THEN "TIMEOUT"
    ELSE "GENERATION_FAILED"

\* parseInt(process.env.MAX_GENERATION_TIME || '120000'): << >> is NaN
maxWaitTimeOf(env) ==
    CASE env = "undefined" -> << 120000 >>
      [] env = "" -> << 120000 >>
      [] env = "5000" -> << 5000 >>
      [] env = "0" -> << 0 >>
      [] OTHER -> << >>

\* Date.now() - startTime < maxWaitTime, false for NaN
withinWaitTime(elapsed, maxWaitTime) == maxWaitTime # << >> /\ elapsed < maxWaitTime[1]

\* const pollInterval = 2000
pollInterval == 2000

\* generate, the catch around waitForTask: a timeout becomes a
\* ModelInferenceError with details 'timeout', anything else is rethrown
catchWaitForTask(e) ==
    IF includesTimeout(e.message)
    THEN ModelInferenceError(<< "image generation timed out, see the history later" >>,
                             << >>, "timeout")
    ELSE e

\* generate, the outer catch: a ModelInferenceError is rethrown, anything
\* else is wrapped in one
catchGenerate(e) ==
    IF e.name = "ModelInferenceError" THEN e
    ELSE ModelInferenceError(<< "unexpected error during image generation: " >> \o e.message,
                             << >>, "")

\* generateFromText, its catch
catchGenerateFromText(e) ==
    IF e.name = "ModelInferenceError" THEN e
    ELSE ModelInferenceError(<< "artwork generation failed: " >> \o e.message, << >>, "")

\* what a call throws to its caller for an error raised inside its try
\* block at the step named
thrownBy(fn, step, e) ==
    IF fn = "generate"
    THEN catchGenerate(IF step = "waitForTask" THEN catchWaitForTask(e) ELSE e)
    ELSE catchGenerateFromText(e)

-----------------------------------------------------------------------------
(* The asset loader under concurrent callers.  loadAsset runs to its one   *)
(* await (the SVG conversion) in one step and from there to its return in  *)
(* another; a file on disk is its content version, 0 when it does not      *)
(* exist.                                                                  *)

\* the paths the callers ask for: an SVG, a PNG, a file of another format
LoaderPaths ==
    { "frames/cyber/corner.svg", "frames/custom/corner.png", "frames/cyber/notes.txt" }

\* the paths that are empty once trimmed, among those a caller passes: the
\* empty path, and a no-break space, a space and a line feed
BlankLoaderPaths == { "", "U+00A0 \n" }

\* the cache of a fresh process; a blank path that is not empty is also
\* the name of a file on disk
NoAssets == [p \in LoaderPaths \cup BlankLoaderPaths |-> Absent]

\* the files fs.existsSync finds
FilesOn(files) == { p \in DOMAIN files : files[p] > 0 }

\* variant: the file is looked for before the cache
loadAssetUntilAwaitFileFirst(cache, files, assetPath) ==
    LET looked == existsSync(assetPath) \o << << "has", assetPath >> >>
    IN  IF ~validateAssetExists(assetPath, FilesOn(files))
        THEN [kind |-> "rejected", buffer |-> Absent, content |-> 0,
              error |-> "asset not found", log |-> looked]
        ELSE IF cache[assetPath] # Absent
        THEN [kind |-> "hit", buffer |-> cache[assetPath], content |-> 0,
              error |-> "", log |-> looked]
        ELSE IF getAssetFormat(assetPath) = "unknown"
        THEN [kind |-> "rejected", buffer |-> Absent, content |-> 0,
              error |-> "unsupported format", log |-> looked]
        ELSE IF getAssetFormat(assetPath) = "svg"
        THEN [kind |-> "await", buffer |-> Absent, content |-> files[assetPath],
              error |-> "", log |-> looked \o << << "read", assetPath >> >>]
        ELSE [kind |-> "stored", buffer |-> AssetBytes(assetPath, files[assetPath]),
              content |-> files[assetPath], error |-> "",
              log |-> looked \o << << "read", assetPath >>, << "set", assetPath >> >>]

\* loadAsset from its entry to its first await or, when it has none, to
\* its return: a cache hit returns the cached buffer; a missing file and
\* an unsupported format throw; an .svg is read and handed to sharp; a
\* .png is read, cached and returned
loadAssetUntilAwait(cache, files, assetPath) ==
    LET looked == << << "has", assetPath >> >>
    IN  IF cache[assetPath] # Absent
        THEN [kind |-> "hit", buffer |-> cache[assetPath], content |-> 0,
              error |-> "", log |-> looked]
        ELSE IF ~validateAssetExists(assetPath, FilesOn(files))
        THEN [kind |-> "rejected", buffer |-> Absent, content |-> 0,
              error |-> "asset not found", log |-> looked \o existsSync(assetPath)]
        ELSE IF getAssetFormat(assetPath) = "unknown"
        THEN [kind |-> "rejected", buffer |-> Absent, content |-> 0,
              error |-> "unsupported format", log |-> looked \o existsSync(assetPath)]
        ELSE IF getAssetFormat(assetPath) = "svg"
        THEN [kind |-> "await", buffer |-> Absent, content |-> files[assetPath],
              error |-> "",
              log |-> looked \o << << "exists", assetPath >>, << "read", assetPath >> >>]
        ELSE [kind |-> "stored", buffer |-> AssetBytes(assetPath, files[assetPath]),
              content |-> files[assetPath], error |-> "",
              log |-> looked \o << << "exists", assetPath >>, << "read", assetPath >>,
                                   << "set", assetPath >> >>]

\* variant: an entry already in the cache is kept
storeAssetIfAbsent(cache, assetPath, buffer) ==
    IF cache[assetPath] # Absent THEN cache ELSE [cache EXCEPT ![assetPath] = buffer]

\* assetCache.set(assetPath, buffer)
storeAsset(cache, assetPath, buffer) == [cache EXCEPT ![assetPath] = buffer]

\* no loadAsset call
NoLoad == [kind |-> "none", buffer |-> Absent, content |-> 0, error |-> "", log |-> << >>]

RECURSIVE renderFrameUntilAwait(_, _, _, _)
\* renderFrame from the head of loop pass i to its next await or throw: a
\* strip whose length is not positive is passed over; any other pass calls
\* loadAsset, which returns, throws or awaits sharp; after the last pass
\* the composite is awaited
renderFrameUntilAwait(c, i, cache, files) ==
    IF i > Len(FRAME_PASSES)
    THEN [i |-> i, load |-> NoLoad]
    ELSE IF i > Len(ALL_CORNERS) /\ borderLengthOf(c, FRAME_PASSES[i]) <= 0
    THEN renderFrameUntilAwait(c, i + 1, cache, files)
    ELSE [i |-> i, load |-> loadAssetUntilAwait(cache, files, passAsset(c, i))]

\* where renderFrame is left waiting after a loadAsset of that kind
stageAfter(kind) ==
    [none |-> "compositing", await |-> "decoding", rejected |-> "done",
     hit |-> "rendering", stored |-> "rendering"][kind]

\* a caller that has no call in progress and has made none
IdleTask ==
    [op |-> "none", stage |-> "idle", path |-> "", rest |-> << >>, content |-> 0,
     outcome |-> "none", buffer |-> Absent, error |-> "", log |-> << >>,
     results |-> << >>]

\* the caller of loadAsset once loadAsset has settled: loadAsset itself
\* returns or throws; loadAssetWithSize goes on to resize the buffer or
\* throws; preloadAssets records the result and goes on to its next path
afterLoadAsset(task, outcome, buffer, message) ==
    IF task.op = "preloadAssets"
    THEN [task EXCEPT !.results = Append(@, [path |-> task.path, success |-> outcome = "ok"]),
                      !.stage = IF task.rest = << >> THEN "done" ELSE "next",
                      !.outcome = IF task.rest = << >> THEN "ok" ELSE "none"]
    ELSE IF task.op = "loadAssetWithSize" /\ outcome = "ok"
    THEN [task EXCEPT !.stage = "resizing", !.buffer = buffer]
    ELSE [task EXCEPT !.stage = "done", !.outcome = outcome, !.buffer = buffer,
                      !.error = message]

-----------------------------------------------------------------------------
(* Font sizing.  Line heights are in tenths (1.3 -> 13); a line count is   *)
(* a record, because a division by zero characters per line gives          *)
(* Infinity.                                                               *)

\* CARD_FONT_STYLE: font sizes in px, line heights in tenths
CARD_FONT_STYLE ==
    [title |-> [fontSize |-> 48, lineHeight |-> 13],
     content |-> [fontSize |-> 36, lineHeight |-> 14],
     minFontSize |-> 24]

\* variant: every panel starts from the content size
getFontSizeForBoxContentOnly(boxId) == CARD_FONT_STYLE.content.fontSize

getFontSizeForBox(boxId) ==
    IF boxId = "title" THEN CARD_FONT_STYLE.title.fontSize
    ELSE CARD_FONT_STYLE.content.fontSize

\* text.split('\n'): the paragraphs between the line feeds, the empty ones
\* included
RECURSIVE split(_)
split(text) ==
    LET feeds == {i \in DOMAIN text : text[i] = "\n"}
    IN  IF feeds = {} THEN << text >>
        ELSE LET first == CHOOSE i \in feeds : \A j \in feeds : i <= j
             IN  << SubSeq(text, 1, first - 1) >>
                 \o split(SubSeq(text, first + 1, Len(text)))

\* The <<fontSize, maxWidth>> pairs of the widths used below (the
\* catalogue's panel widths at every scale preset among them) for which (maxWidth - 40) / (fontSize * 0.8), a whole number in exact
\* arithmetic, comes out just below it in IEEE-754 doubles (fontSize * 0.8
\* is rounded up), so that Math.floor loses one character
FloorLosesOne ==
    { <<24, 136>>, <<24, 232>>, <<29, 504>>, <<34, 176>>, <<41, 204>>, <<48, 232>> }

\* Math.floor((maxWidth - 40) / avgCharWidth) with avgCharWidth = fontSize * 0.8
maxCharsPerLineOf(maxWidth, fontSize) ==
    ((maxWidth - 40) * 10) \div (8 * fontSize)
      - (IF <<fontSize, maxWidth>> \in FloorLosesOne THEN 1 ELSE 0)

\* Math.ceil(length / maxCharsPerLine) for maxCharsPerLine # 0
ceilDiv(length, maxCharsPerLine) == -((-length) \div maxCharsPerLine)

RECURSIVE sumLines(_, _)
sumLines(paragraphs, maxCharsPerLine) ==
    IF paragraphs = << >> THEN 0
    ELSE (IF Len(Head(paragraphs)) = 0 THEN 1
          ELSE ceilDiv(Len(Head(paragraphs)), maxCharsPerLine))
         + sumLines(Tail(paragraphs), maxCharsPerLine)

\* totalLines: Infinity when a non-empty paragraph is divided by zero
\* characters per line, else the sum over the paragraphs
calculateTextLines(text, maxWidth, fontSize) ==
    LET maxCharsPerLine == maxCharsPerLineOf(maxWidth, fontSize)
        paragraphs == split(text)
    IN  IF maxCharsPerLine = 0
        THEN IF \E i \in DOMAIN paragraphs : Len(paragraphs[i]) # 0
             THEN [infinite |-> TRUE, count |-> 0]
             ELSE [infinite |-> FALSE, count |-> Len(paragraphs)]
        ELSE [infinite |-> FALSE, count |-> sumLines(paragraphs, maxCharsPerLine)]

\* totalTextHeight <= availableHeight, with totalTextHeight = lines *
\* fontSize * lineHeight and availableHeight = boxHeight - 20
fitsAvailableHeight(lines, fontSize, lineHeight, boxHeight) ==
    /\ ~lines.infinite
    /\ lines.count * fontSize * lineHeight <= (boxHeight - 20) * 10

\* the while loop of calculateFontSize, entered with the given fontSize
RECURSIVE shrinkFontSize(_, _, _, _, _)
shrinkFontSize(text, boxWidth, boxHeight, lineHeight, fontSize) ==
    IF fontSize > CARD_FONT_STYLE.minFontSize
    THEN IF fitsAvailableHeight(calculateTextLines(text, boxWidth, fontSize),
                                fontSize, lineHeight, boxHeight)
         THEN fontSize
         ELSE shrinkFontSize(text, boxWidth, boxHeight, lineHeight, fontSize - 2)
    ELSE fontSize

calculateFontSize(text, boxId, boxWidth, boxHeight) ==
    LET baseFontSize == getFontSizeForBox(boxId)
        minFontSize == CARD_FONT_STYLE.minFontSize
        lineHeight == IF boxId = "title" THEN CARD_FONT_STYLE.title.lineHeight
                      ELSE CARD_FONT_STYLE.content.lineHeight
    IN  Max(shrinkFontSize(text, boxWidth, boxHeight, lineHeight, baseFontSize),
            minFontSize)

\* variant: the rest of a paragraph that is shorter than a line is dropped
wrapParagraphDropsRest(remaining, maxCharsPerLine) ==
    [i \in 1..(Len(remaining) \div maxCharsPerLine) |->
        SubSeq(remaining, (i - 1) * maxCharsPerLine + 1, i * maxCharsPerLine)]

\* the while loop of wrapText over one paragraph, for maxCharsPerLine >= 1:
\* full lines are cut off the front until the rest fits a line
RECURSIVE wrapParagraph(_, _)
wrapParagraph(remaining, maxCharsPerLine) ==
    IF Len(remaining) = 0 THEN << >>
    ELSE IF Len(remaining) <= maxCharsPerLine THEN << remaining >>
    ELSE << SubSeq(remaining, 1, maxCharsPerLine) >>
         \o wrapParagraph(SubSeq(remaining, maxCharsPerLine + 1, Len(remaining)),
                          maxCharsPerLine)

\* the for loop of wrapText over the paragraphs
RECURSIVE wrapParagraphs(_, _)
wrapParagraphs(paragraphs, maxCharsPerLine) ==
    IF paragraphs = << >> THEN << >>
    ELSE (IF Len(Head(paragraphs)) <= maxCharsPerLine THEN << Head(paragraphs) >>
          ELSE wrapParagraph(Head(paragraphs), maxCharsPerLine))
         \o wrapParagraphs(Tail(paragraphs), maxCharsPerLine)

\* wrapText(text, maxWidth, fontSize).  With maxCharsPerLine <= 0 a
\* paragraph that is not empty never gets shorter: substring(0,
\* maxCharsPerLine) is empty and the loop pushes empty lines for ever
wrapText(text, maxWidth, fontSize) ==
    LET maxCharsPerLine == maxCharsPerLineOf(maxWidth, fontSize)
        paragraphs == split(text)
    IN  IF maxCharsPerLine <= 0 /\ \E i \in DOMAIN paragraphs : Len(paragraphs[i]) > 0
        THEN [diverges |-> TRUE, lines |-> << >>]
        ELSE [diverges |-> FALSE, lines |-> wrapParagraphs(paragraphs, maxCharsPerLine)]

\* escapeXml, character by character
escapeXml(text) ==
    [i \in DOMAIN text |->
        CASE text[i] = "&" -> "&amp;"
          [] text[i] = "<" -> "&lt;"
          [] text[i] = ">" -> "&gt;"
          [] text[i] = "\"" -> "&quot;"
          [] text[i] = "'" -> "&apos;"
          [] OTHER -> text[i]]

\* createTextSvg(text, width, height, fontSize): lineHeight = fontSize * 1.4
\* and totalTextHeight in tenths of a pixel, x in halves (x2), y in
\* twentieths (y20); when wrapText never returns, neither does it
createTextSvg(text, width, height, fontSize) ==
    LET wrapped == wrapText(text, width, fontSize)
        lines == wrapped.lines
        lineHeight == fontSize * 14
        totalTextHeight == Len(lines) * lineHeight
        startY == (height * 10 - totalTextHeight) + fontSize * 16
    IN  [diverges |-> wrapped.diverges,
         width |-> width, height |-> height, fontSize |-> fontSize,
         lineHeight |-> lineHeight, totalTextHeight |-> totalTextHeight,
         textElements |-> [i \in DOMAIN lines |->
                             [x2 |-> width, y20 |-> startY + (i - 1) * 2 * lineHeight,
                              tspan |-> escapeXml(lines[i])]]]

\* glow configs with the filter switched off (opacity 0) but a blur or a
\* spread left in place
DisabledGlows ==
    { [blur |-> 6 * Q, opacity |-> 0, spread |-> 3 * Q],
      [blur |-> 8 * Q, opacity |-> 0, spread |-> 0],
      [blur |-> 0, opacity |-> 0, spread |-> 4 * Q] }

\* both border kinds, rects of the catalogue and small ones, every glow
\* preset, the disabled glows and no glow config at all
BorderInputs ==
    [kind : {"artwork", "textBox"},
     frame : { Frame(40, 40, 390, 688), Frame(480, 40, 504, 100),
               Frame(0, 0, 1, 1), Frame(5, 7, 20, 10) },
     glowConfig : {Undefined} \cup { << g >> : g \in { GLOW_PRESETS[i] : i \in GlowIntensities }
                                                      \cup DisabledGlows }]

\* the longest text of a calculateFontSize call
MaxTextLen == 5

RECURSIVE TextsUpTo(_)
TextsUpTo(n) ==
    IF n = 0 THEN { << >> }
    ELSE LET shorter == TextsUpTo(n - 1)
         IN  shorter \cup { Append(t, c) : t \in shorter, c \in {"a", "\n"} }

\* panel widths: below the 40 px margin, equal to it, one character wide,
\* a few characters wide and the title width of the landscape layouts
FontBoxWidths == {30, 40, 60, 136, 176, 232, 504}

\* panel heights: below the 20 px padding, equal to it, and up to the
\* content height of the landscape-square layout
FontBoxHeights == {10, 20, 60, 100, 150, 244}

FontInputs ==
    [kind : {"calculateFontSize"}, text : TextsUpTo(MaxTextLen),
     boxId : {"title", "content1"},
     boxWidth : FontBoxWidths, boxHeight : FontBoxHeights]

\* the longest run of characters without a line feed given to wrapText
MaxRun == 26

\* a paragraph of n characters
Run(n) == [i \in 1..n |-> IF i % 2 = 1 THEN "a" ELSE "b"]

\* one paragraph of every length, and texts of two paragraphs
WrapTexts ==
    { Run(n) : n \in 0..MaxRun }
    \cup { Run(n) \o << "\n" >> \o Run(m) : n \in {0, 3, MaxRun}, m \in {0, 7} }

\* the text boxes of every layout variant at every scale preset
PanelRects ==
    { [variant |-> v, preset |-> p,
       box |-> getAllTextBoxes(applyScalePreset(LAYOUT_VARIANTS[v], p))[i]] :
        v \in LayoutVariants, p \in ScalePresets, i \in 1..5 }

\* wrapText on every panel at every font size, and on widths too narrow
\* for a panel
WrapInputs ==
    { [text |-> t, maxWidth |-> r.box.width, fontSize |-> f, panel |-> << r >>] :
        t \in WrapTexts, r \in PanelRects, f \in 24..48 }
    \cup [text : WrapTexts, maxWidth : {30, 40, 60}, fontSize : {24, 36, 48}, panel : {<< >>}]

\* the HTTP statuses of a response that is not ok
ErrorStatuses == {400, 401, 429, 500, 503, 504}

\* the calls of generate and generateFromText: whether the config is valid,
\* the API key set, the client already created, and MAX_GENERATION_TIME
GenInputs ==
    { call \in [fn : {"generate", "generateFromText"}, configValid : BOOLEAN,
                apiKey : BOOLEAN, clientInstance : BOOLEAN,
                maxGenerationTime : {"undefined", "5000", "0", "abc"}] :
        call.clientInstance => call.apiKey }

\* the callers of the asset loader
TaskIds == {1, 2}

\* content versions a file can have
MaxVersion == 2

\* calls started and file changes made in one run
MaxLoaderSteps == 4

\* the lists preloadAssets is called with
PreloadLists ==
    { << "frames/cyber/corner.svg" >>,
      << "frames/cyber/notes.txt", "frames/cyber/corner.svg" >>,
      << "frames/custom/corner.png", "frames/cyber/corner.svg" >> }

\* composeCard has not returned a buffer
NoImage == [image |-> << >>]

\* no call of the family is under way
NoCall == [kind |-> "none"]

NoLocal == [effectiveLayoutMode |-> "", effectiveCropAnchor |-> "", glowConfig |-> Undefined]

NoValidation == [valid |-> TRUE, errors |-> << >>]

-----------------------------------------------------------------------------
(* State machine                                                           *)

\* variant: any non-empty buffer passes for an image
usableImageLenient(buffer) == buffer # "empty"

\* whether sharp decodes the buffer to an image with a width and a height;
\* an empty buffer, bytes that are no image and a header without
\* dimensions are all rejected
usableImage(buffer) == buffer = "image"

\* every call family but the one that runs is at rest
ComposeIdle ==
    /\ opts = DefaultOptions
    /\ layout = LANDSCAPE_LAYOUT /\ local = NoLocal /\ validation = NoValidation
    /\ layers = << >> /\ error = "" /\ result = NoImage

GapIdle == gapIn = NoGapInput /\ gapOut = FALSE

ScaleIdle == scaleIn = NoScaleInput /\ scaleOut = LANDSCAPE_LAYOUT

FrameIdle ==
    /\ frameIn = NoCall /\ frameOut = NoCall /\ frameInfo = NoCall /\ frameTask = NoCall
    /\ assetCache = EmptyCache /\ assetLog = << >>

BorderIdle == borderIn = NoCall /\ borderOut = NoCall

FontTail == svgOut = NoCall /\ wrapIn = NoCall /\ wrapOut = NoCall

FontIdle == fontIn = NoCall /\ fontOut = 0 /\ FontTail

LoaderIdle == disk = << >> /\ tasks = << >> /\ loadTimeCache = {} /\ loaderSteps = 0

GenIdle == gen = NoCall

Init ==
    \/ /\ pc = "renderFrame"
       /\ \E f \in FrameInputs :
            /\ frameIn = f /\ frameOut = NoCall /\ frameInfo = NoCall /\ frameTask = NoCall
            /\ assetCache = f.cache /\ assetLog = << >>
            /\ disk = [p \in AssetPaths |-> IF p \in f.files THEN 1 ELSE 0]
            /\ loadTimeCache = { p \in AssetPaths : f.cache[p] # Absent }
       /\ tasks = << >> /\ loaderSteps = 0
       /\ ComposeIdle /\ GapIdle /\ ScaleIdle /\ BorderIdle /\ FontIdle /\ GenIdle
    \/ /\ pc = "calculateFontSize"
       /\ \E f \in FontInputs : fontIn = f /\ fontOut = 0
       /\ FontTail
       /\ ComposeIdle /\ GapIdle /\ ScaleIdle /\ FrameIdle /\ BorderIdle /\ LoaderIdle /\ GenIdle
    \/ /\ pc = "wrapText"
       /\ \E w \in WrapInputs : wrapIn = w
       /\ fontIn = NoCall /\ fontOut = 0 /\ svgOut = NoCall /\ wrapOut = NoCall
       /\ ComposeIdle /\ GapIdle /\ ScaleIdle /\ FrameIdle /\ BorderIdle /\ LoaderIdle /\ GenIdle
    \/ /\ pc = "renderBorder"
       /\ \E b \in BorderInputs : borderIn = b /\ borderOut = NoCall
       /\ ComposeIdle /\ GapIdle /\ ScaleIdle /\ FrameIdle /\ FontIdle /\ LoaderIdle /\ GenIdle
    \/ /\ pc = "composeCard"
       /\ \E o \in ComposeOptions :
            /\ opts = o
            /\ layout = LANDSCAPE_LAYOUT /\ local = NoLocal /\ validation = NoValidation
            /\ layers = << >> /\ error = "" /\ result = NoImage
       /\ GapIdle /\ ScaleIdle /\ FrameIdle /\ BorderIdle /\ FontIdle /\ LoaderIdle /\ GenIdle
    \/ /\ pc = "validateBorderGap"
       /\ \E g \in GapInputs : gapIn = g /\ gapOut = FALSE
       /\ ComposeIdle /\ ScaleIdle /\ FrameIdle /\ BorderIdle /\ FontIdle /\ LoaderIdle /\ GenIdle
    \/ /\ pc \in {"applyScaleFactor", "applyScalePreset"}
       /\ \E sc \in (IF pc = "applyScaleFactor" THEN ScaleInputs ELSE PresetInputs) :
            scaleIn = sc /\ scaleOut = LANDSCAPE_LAYOUT
       /\ ComposeIdle /\ GapIdle /\ FrameIdle /\ BorderIdle /\ FontIdle /\ LoaderIdle /\ GenIdle

\* composeCard up to the artwork-buffer check: resolve the layout, the crop
\* anchor and the glow, validate the borders (warning only), then reject an
\* empty artwork buffer
ComposeStart ==
    /\ pc = "composeCard"
    /\ layout' = composeLayout(opts)
    /\ local' = [effectiveLayoutMode |-> effectiveLayoutModeOf(opts),
                 effectiveCropAnchor |-> effectiveCropAnchorOf(opts),
                 glowConfig |-> composeGlowConfig(opts)]
    /\ validation' = validateLayoutBorders(composeLayout(opts), composeGlowConfig(opts))
    /\ IF onLayoutValidation(validation') = "throw"
       THEN pc' = "failed" /\ error' = "layout validation failed"
       ELSE IF opts.artworkBuffer = "empty"
       THEN pc' = "failed" /\ error' = "artwork buffer is empty"
       ELSE pc' = "background" /\ error' = ""
    /\ UNCHANGED <<opts, layers, gapIn, gapOut, scaleIn, scaleOut, result, frameVars, borderVars, fontVars, loaderVars, gen>>

\* 1. the background, cover-fitted to the canvas; sharp rejects a buffer it
\* cannot decode
ComposeBackground ==
    /\ pc = "background"
    /\ IF usableImage(opts.backgroundBuffer)
       THEN /\ layers' = << backgroundLayer(layout) >>
            /\ pc' = "artwork"
            /\ error' = ""
       ELSE /\ layers' = layers
            /\ pc' = "failed"
            /\ error' = "background cannot be decoded"
    /\ UNCHANGED <<opts, layout, local, validation, gapIn, gapOut, scaleIn, scaleOut, result, frameVars, borderVars, fontVars, loaderVars, gen>>

\* 2. the artwork: its metadata must decode and give a width and a height;
\* then it is cover-fitted into the frame and composited at the frame position
ComposeArtwork ==
    /\ pc = "artwork"
    /\ IF usableImage(opts.artworkBuffer)
       THEN /\ layers' = Append(layers, artworkLayer(layout, local.effectiveCropAnchor))
            /\ pc' = "artworkBorder"
            /\ error' = ""
       ELSE /\ layers' = layers
            /\ pc' = "failed"
            /\ error' = IF opts.artworkBuffer = "nodims"
                        THEN "artwork has no dimensions"
                        ELSE "artwork cannot be decoded"
    /\ UNCHANGED <<opts, layout, local, validation, gapIn, gapOut, scaleIn, scaleOut, result, frameVars, borderVars, fontVars, loaderVars, gen>>

\* 3. the artwork frame's double-line border
ComposeArtworkBorder ==
    /\ pc = "artworkBorder"
    /\ layers' = Append(layers, artworkBorderLayer(layout, local.glowConfig))
    /\ pc' = "textBoxBackgrounds"
    /\ UNCHANGED <<opts, layout, local, validation, error, gapIn, gapOut, scaleIn, scaleOut, result, frameVars, borderVars, fontVars, loaderVars, gen>>

\* 4. the text boxes' backgrounds and borders, one composite call
ComposeTextBoxBackgrounds ==
    /\ pc = "textBoxBackgrounds"
    /\ layers' = layers \o renderTextBoxBackgrounds(layout, opts.borderPreset, local.glowConfig)
    /\ pc' = "textContent"
    /\ UNCHANGED <<opts, layout, local, validation, error, gapIn, gapOut, scaleIn, scaleOut, result, frameVars, borderVars, fontVars, loaderVars, gen>>

\* 5. the text layers, one composite call; then the card is returned
ComposeTextContent ==
    /\ pc = "textContent"
    /\ layers' = layers \o renderTextContent(opts.textBoxes, layout)
    /\ result' = [image |-> layers']
    /\ pc' = "done"
    /\ UNCHANGED <<opts, layout, local, validation, error, gapIn, gapOut, scaleIn, scaleOut, frameVars, borderVars, fontVars, loaderVars, gen>>

\* one call of validateBorderGap, in either argument order
CallValidateBorderGap ==
    /\ pc = "validateBorderGap"
    /\ gapOut' = IF gapIn.swapped
                 THEN validateBorderGap(gapIn.frame2, gapIn.frame1,
                                        gapIn.border2, gapIn.border1, gapIn.minGap)
                 ELSE validateBorderGap(gapIn.frame1, gapIn.frame2,
                                        gapIn.border1, gapIn.border2, gapIn.minGap)
    /\ pc' = "gapDone"
    /\ UNCHANGED <<opts, layout, local, validation, layers, error, gapIn, scaleIn, scaleOut, result, frameVars, borderVars, fontVars, loaderVars, gen>>

\* one call of applyScaleFactor on a catalogue layout
CallApplyScaleFactor ==
    /\ pc = "applyScaleFactor"
    /\ scaleOut' = applyScaleFactor(LAYOUT_VARIANTS[scaleIn.variant], scaleIn.factor)
    /\ pc' = "scaleDone"
    /\ UNCHANGED <<opts, layout, local, validation, layers, error, gapIn, gapOut, scaleIn, result, frameVars, borderVars, fontVars, loaderVars, gen>>

\* one call of applyScalePreset on a catalogue layout
CallApplyScalePreset ==
    /\ pc = "applyScalePreset"
    /\ scaleOut' = applyScalePreset(LAYOUT_VARIANTS[scaleIn.variant], scaleIn.preset)
    /\ pc' = "presetDone"
    /\ UNCHANGED <<opts, layout, local, validation, layers, error, gapIn, gapOut, scaleIn, result, frameVars, borderVars, fontVars, loaderVars, gen>>

\* the variables a step of renderFrame leaves alone
FrameRest ==
    <<composeVars, gapVars, scaleVars, frameIn, frameInfo, borderVars, fontVars, disk, tasks,
      loaderSteps, gen>>

\* renderFrame returns or throws
SettleRenderFrame(outcome, buffer, message) ==
    /\ frameOut' = [outcome |-> outcome, buffer |-> buffer, error |-> message]
    /\ pc' = "frameDone"

\* renderFrame runs on from the head of loop pass i, with the
\* compositeInputs and the log so far, to its next await or its throw
RunRenderFrame(i, inputs, log) ==
    LET r == renderFrameUntilAwait(renderFrameLocals(frameIn.options), i, assetCache, disk)
    IN  /\ frameTask' = [stage |-> stageAfter(r.load.kind), i |-> r.i, inputs |-> inputs,
                         buffer |-> r.load.buffer, content |-> r.load.content]
        /\ assetLog' = log \o r.load.log
        /\ assetCache' = IF r.load.kind = "stored"
                         THEN storeAsset(assetCache, r.load.buffer.source, r.load.buffer)
                         ELSE assetCache
        /\ loadTimeCache' = IF r.load.kind = "stored"
                            THEN loadTimeCache \cup {r.load.buffer.source}
                            ELSE loadTimeCache
        /\ IF r.load.kind = "rejected"
           THEN SettleRenderFrame("thrown", Absent, r.load.error)
           ELSE pc' = "frameAwait" /\ frameOut' = frameOut

\* renderFrame is called on the card the options describe and runs to its
\* first await, its return or its throw
CallRenderFrame ==
    /\ pc = "renderFrame"
    /\ IF framePresetAt(frameIn.options.presetId) = << >>
       THEN /\ SettleRenderFrame("thrown", Absent, "invalid preset")
            /\ UNCHANGED <<frameTask, assetCache, assetLog, loadTimeCache>>
       ELSE IF ~isDecorativePreset(frameIn.options.presetId)
       THEN /\ SettleRenderFrame("returned",
                                 CardBuffer(frameIn.options.cardWidth, frameIn.options.cardHeight),
                                 "")
            /\ UNCHANGED <<frameTask, assetCache, assetLog, loadTimeCache>>
       ELSE LET validated == validatePresetAssets(framePresetAt(frameIn.options.presetId)[1],
                                                  FilesOn(disk))
            IN  IF validated.error # ""
                THEN /\ SettleRenderFrame("thrown", Absent, validated.error)
                     /\ assetLog' = assetLog \o validated.log
                     /\ UNCHANGED <<frameTask, assetCache, loadTimeCache>>
                ELSE RunRenderFrame(1, << >>, assetLog \o validated.log)
    /\ UNCHANGED FrameRest

\* loadAsset after its await, within renderFrame: the converted buffer is
\* cached, the load time recorded, and the tile is handed to sharp
RenderFrameAssetDecoded ==
    /\ pc = "frameAwait" /\ frameTask.stage = "decoding"
    /\ LET assetPath == passAsset(renderFrameLocals(frameIn.options), frameTask.i)
       IN  /\ assetCache' = storeAsset(assetCache, assetPath,
                                       AssetBytes(assetPath, frameTask.content))
           /\ loadTimeCache' = loadTimeCache \cup {assetPath}
           /\ assetLog' = Append(assetLog, << "set", assetPath >>)
           /\ frameTask' = [frameTask EXCEPT !.stage = "rendering",
                                             !.buffer = AssetBytes(assetPath, frameTask.content)]
    /\ UNCHANGED <<pc, frameOut, FrameRest>>

\* the tile of a pass is rendered: it is pushed to compositeInputs and
\* the loop goes on
RenderFrameTileRendered ==
    /\ pc = "frameAwait" /\ frameTask.stage = "rendering"
    /\ RunRenderFrame(frameTask.i + 1,
                      Append(frameTask.inputs,
                             passInput(renderFrameLocals(frameIn.options), frameTask.i,
                                       frameTask.buffer)),
                      assetLog)
    /\ UNCHANGED FrameRest

\* the composite is done: renderFrame returns the card with its tiles
RenderFrameComposited ==
    /\ pc = "frameAwait" /\ frameTask.stage = "compositing"
    /\ SettleRenderFrame("returned",
                         [base |-> CardBuffer(frameIn.options.cardWidth,
                                              frameIn.options.cardHeight),
                          composite |-> frameTask.inputs],
                         "")
    /\ frameTask' = [frameTask EXCEPT !.stage = "done"]
    /\ UNCHANGED <<assetCache, assetLog, loadTimeCache, FrameRest>>

\* one call of renderDoubleLineArtworkBorder or renderDoubleLineTextBoxBorder
CallRenderBorder ==
    /\ pc = "renderBorder"
    /\ borderOut' = IF borderIn.kind = "artwork"
                    THEN renderDoubleLineArtworkBorder(borderIn.frame, borderIn.glowConfig)
                    ELSE renderDoubleLineTextBoxBorder(borderIn.frame, borderIn.glowConfig)
    /\ pc' = "borderDone"
    /\ UNCHANGED <<composeVars, gapVars, scaleVars, frameVars, borderIn, fontVars, loaderVars, gen>>

\* getFrameRenderInfo called with the options renderFrame was given
CallGetFrameRenderInfo ==
    /\ pc = "frameDone"
    /\ frameInfo' = getFrameRenderInfo(frameIn.options)
    /\ pc' = "frameInfoDone"
    /\ UNCHANGED <<composeVars, gapVars, scaleVars, frameIn, frameOut, frameTask, assetCache,
                   assetLog, borderVars, fontVars, loaderVars, gen>>

\* renderTextContent goes on, for a text that is not blank: createTextSvg
\* at the size calculateFontSize returned for the same text and box
CallCreateTextSvg ==
    /\ pc = "fontDone"
    /\ trim(fontIn.text) # << >>
    /\ svgOut' = createTextSvg(fontIn.text, fontIn.boxWidth, fontIn.boxHeight, fontOut)
    /\ pc' = "textSvgDone"
    /\ UNCHANGED <<composeVars, gapVars, scaleVars, frameVars, borderVars, fontIn, fontOut, wrapIn,
                   wrapOut, loaderVars, gen>>

\* one call of wrapText
CallWrapText ==
    /\ pc = "wrapText"
    /\ wrapOut' = wrapText(wrapIn.text, wrapIn.maxWidth, wrapIn.fontSize)
    /\ pc' = "wrapDone"
    /\ UNCHANGED <<composeVars, gapVars, scaleVars, frameVars, borderVars, fontIn, fontOut, svgOut,
                   wrapIn, loaderVars, gen>>

\* one call of calculateFontSize
CallCalculateFontSize ==
    /\ pc = "calculateFontSize"
    /\ fontOut' = calculateFontSize(fontIn.text, fontIn.boxId,
                                    fontIn.boxWidth, fontIn.boxHeight)
    /\ pc' = "fontDone"
    /\ UNCHANGED <<composeVars, gapVars, scaleVars, frameVars, borderVars, fontIn, svgOut, wrapIn,
                   wrapOut, loaderVars, gen>>

\* the call throws e at the step named
GenThrows(step, e) ==
    gen' = [gen EXCEPT !.stage = "thrown", !.at = step, !.thrown = e]

GenRest ==
    <<composeVars, gapVars, scaleVars, frameVars, borderVars, fontVars, loaderVars, pc>>

\* generate: validateConfig and getClient; generateFromText: validateApiKey
\* and getClient.  These run before the try block
GenEnter ==
    /\ pc = "generation" /\ gen.stage = "enter"
    /\ IF gen.fn = "generate"
       THEN IF ~gen.call.configValid
            THEN GenThrows("validateConfig", Error(<< "Invalid width" >>))
            ELSE IF ~gen.call.clientInstance /\ ~gen.call.apiKey
            THEN GenThrows("getClient", Error(<< "DASHSCOPE_API_KEY is not configured" >>))
            ELSE gen' = [gen EXCEPT !.stage = "upload"]
       ELSE IF ~gen.call.apiKey
            THEN GenThrows("validateApiKey", Error(<< "DASHSCOPE_API_KEY is not configured" >>))
            ELSE gen' = [gen EXCEPT !.stage = "submit"]
    /\ UNCHANGED GenRest

\* generate: the sketch is uploaded to OSS, or the upload fails
GenUpload ==
    /\ pc = "generation" /\ gen.stage = "upload"
    /\ \E ok \in BOOLEAN :
         IF ok THEN gen' = [gen EXCEPT !.stage = "submit"]
         ELSE GenThrows("upload",
                        thrownBy(gen.fn, "upload",
                                 Error(<< "Aliyun OSS upload failed: ", "socket hang up" >>)))
    /\ UNCHANGED GenRest

\* the generation request: a response that is not ok, a task id, an image
\* URL, or neither
GenSubmit ==
    /\ pc = "generation" /\ gen.stage = "submit"
    /\ \/ \E status \in ErrorStatuses :
            GenThrows("submit",
                      thrownBy(gen.fn, "submit",
                               ModelInferenceError(<< "DashScope API error: ", statusText(status) >>,
                                                   << status >>, "errorText")))
       \/ gen' = [gen EXCEPT !.stage = "waitForTask", !.elapsed = 0,
                             !.maxWaitTime = maxWaitTimeOf(gen.call.maxGenerationTime)]
       \/ gen' = [gen EXCEPT !.stage = "download"]
       \/ GenThrows("submit",
                    thrownBy(gen.fn, "submit",
                             IF gen.fn = "generate"
                             THEN Error(<< "Unexpected API response format: ", "{}" >>)
                             ELSE ModelInferenceError(
                                     << "the API returned neither a task id nor an image URL" >>,
                                     << >>, "")))
    /\ UNCHANGED GenRest

\* waitForTask, one turn of its loop while the time is not up
GenPoll ==
    /\ pc = "generation" /\ gen.stage = "waitForTask"
    /\ withinWaitTime(gen.elapsed, gen.maxWaitTime)
    /\ \/ \E status \in ErrorStatuses :
            GenThrows("waitForTask",
                      thrownBy(gen.fn, "waitForTask",
                               ModelInferenceError(
                                  << "Failed to get task status: ", statusText(status) >>,
                                  << status >>, "")))
       \/ gen' = [gen EXCEPT !.stage = "download"]
       \/ \E message \in {"Unknown error", "inference timeout"} :
            GenThrows("waitForTask",
                      thrownBy(gen.fn, "waitForTask", Error(<< "Task failed: ", message >>)))
       \/ \E latency \in {0, 1000} :
            gen' = [gen EXCEPT !.elapsed = @ + latency + pollInterval]
    /\ UNCHANGED GenRest

\* waitForTask, the time is up
GenTimeout ==
    /\ pc = "generation" /\ gen.stage = "waitForTask"
    /\ ~withinWaitTime(gen.elapsed, gen.maxWaitTime)
    /\ GenThrows("waitForTask",
                 thrownBy(gen.fn, "waitForTask",
                          Error(<< "Task timeout: Image generation took too long" >>)))
    /\ UNCHANGED GenRest

\* downloadImage: the image, or a response that is not ok
GenDownload ==
    /\ pc = "generation" /\ gen.stage = "download"
    /\ \/ gen' = [gen EXCEPT !.stage = "returned"]
       \/ \E status \in ErrorStatuses :
            LET failed == Error(<< "Failed to download image: ", statusText(status) >>)
            IN  GenThrows("download",
                          thrownBy(gen.fn, "download",
                                   IF gen.fn = "generate"
                                   THEN ModelInferenceError(
                                           << "the image was generated but the download failed: " >>
                                              \o failed.message, << >>, "")
                                   ELSE failed))
    /\ UNCHANGED GenRest

GenInit ==
    /\ pc = "generation"
    /\ \E call \in GenInputs :
         gen = [fn |-> call.fn, call |-> call, stage |-> "enter", at |-> "",
                elapsed |-> 0, maxWaitTime |-> << >>, thrown |-> NoError]
    /\ ComposeIdle /\ GapIdle /\ ScaleIdle /\ FrameIdle /\ BorderIdle /\ FontIdle
    /\ LoaderIdle

GenNext ==
    \/ GenEnter
    \/ GenUpload
    \/ GenSubmit
    \/ GenPoll
    \/ GenTimeout
    \/ GenDownload

GenSpec == GenInit /\ [][GenNext]_vars

\* a caller's loadAsset call on task.path, up to its await or its return
RunLoadAsset(t, task) ==
    LET r == loadAssetUntilAwait(assetCache, disk, task.path)
        logged == [task EXCEPT !.log = @ \o r.log]
    IN  /\ tasks' = [tasks EXCEPT ![t] =
                       IF r.kind = "await"
                       THEN [logged EXCEPT !.stage = "decoding", !.content = r.content]
                       ELSE IF r.kind = "rejected"
                       THEN afterLoadAsset(logged, "error", Absent, r.error)
                       ELSE afterLoadAsset(logged, "ok", r.buffer, "")]
        /\ assetCache' = IF r.kind = "stored"
                         THEN storeAsset(assetCache, task.path, r.buffer)
                         ELSE assetCache
        /\ loadTimeCache' = IF r.kind = "stored"
                            THEN loadTimeCache \cup {task.path}
                            ELSE loadTimeCache

CanCall(t) == tasks[t].stage \in {"idle", "done"} /\ loaderSteps < MaxLoaderSteps

LoaderRest ==
    <<composeVars, gapVars, scaleVars, frameIn, frameOut, frameInfo, frameTask, assetLog,
      borderVars, fontVars, pc, gen>>

CallLoadAsset ==
    /\ pc = "assetLoader"
    /\ \E t \in TaskIds, p \in LoaderPaths \cup BlankLoaderPaths :
         /\ CanCall(t)
         /\ RunLoadAsset(t, [IdleTask EXCEPT !.op = "loadAsset", !.path = p])
    /\ loaderSteps' = loaderSteps + 1
    /\ UNCHANGED <<disk, LoaderRest>>

CallLoadAssetWithSize ==
    /\ pc = "assetLoader"
    /\ \E t \in TaskIds, p \in LoaderPaths :
         /\ CanCall(t)
         /\ RunLoadAsset(t, [IdleTask EXCEPT !.op = "loadAssetWithSize", !.path = p])
    /\ loaderSteps' = loaderSteps + 1
    /\ UNCHANGED <<disk, LoaderRest>>

CallPreloadAssets ==
    /\ pc = "assetLoader"
    /\ \E t \in TaskIds, assetPaths \in PreloadLists :
         /\ CanCall(t)
         /\ RunLoadAsset(t, [IdleTask EXCEPT !.op = "preloadAssets",
                                             !.path = Head(assetPaths),
                                             !.rest = Tail(assetPaths)])
    /\ loaderSteps' = loaderSteps + 1
    /\ UNCHANGED <<disk, LoaderRest>>

\* preloadAssets, next turn of its loop
ContinuePreloadAssets ==
    /\ pc = "assetLoader"
    /\ \E t \in TaskIds :
         /\ tasks[t].stage = "next"
         /\ RunLoadAsset(t, [tasks[t] EXCEPT !.path = Head(tasks[t].rest),
                                             !.rest = Tail(tasks[t].rest)])
    /\ UNCHANGED <<disk, loaderSteps, LoaderRest>>

\* loadAsset after its await: the converted buffer is cached, the load
\* time recorded and the buffer returned
ResumeLoadAsset ==
    /\ pc = "assetLoader"
    /\ \E t \in TaskIds :
         /\ tasks[t].stage = "decoding"
         /\ LET buffer == AssetBytes(tasks[t].path, tasks[t].content)
                logged == [tasks[t] EXCEPT !.log = Append(@, << "set", tasks[t].path >>)]
            IN  /\ assetCache' = storeAsset(assetCache, tasks[t].path, buffer)
                /\ loadTimeCache' = loadTimeCache \cup {tasks[t].path}
                /\ tasks' = [tasks EXCEPT ![t] = afterLoadAsset(logged, "ok", buffer, "")]
    /\ UNCHANGED <<disk, loaderSteps, LoaderRest>>

\* loadAssetWithSize after loadAsset: the resized buffer is returned
FinishLoadAssetWithSize ==
    /\ pc = "assetLoader"
    /\ \E t \in TaskIds :
         /\ tasks[t].stage = "resizing"
         /\ tasks' = [tasks EXCEPT ![t] =
                        [@ EXCEPT !.stage = "done", !.outcome = "ok",
                                  !.buffer = resizeFill(tasks[t].buffer, 64, 64)]]
    /\ UNCHANGED <<disk, assetCache, loadTimeCache, loaderSteps, LoaderRest>>

\* another callback or the file system may take a step: between the
\* calls of the loader's callers, and while renderFrame is suspended
OthersMayAct ==
    IF pc = "assetLoader" THEN loaderSteps < MaxLoaderSteps
    ELSE pc = "frameAwait" /\ loaderSteps < frameIn.others

\* clearAssetCache: both maps are cleared; the call is noted in the log of
\* accesses
CallClearAssetCache ==
    /\ OthersMayAct
    /\ assetCache' = [p \in DOMAIN assetCache |-> Absent]
    /\ loadTimeCache' = {}
    /\ assetLog' = Append(assetLog, << "clear" >>)
    /\ loaderSteps' = loaderSteps + 1
    /\ UNCHANGED <<disk, tasks, composeVars, gapVars, scaleVars, frameIn, frameOut, frameInfo,
                   frameTask, borderVars, fontVars, pc, gen>>

\* outside the program: an asset file is written or replaced; the content
\* of a file whose format loadAsset turns down is never read, and its
\* versions are not told apart
WriteFile ==
    /\ pc = "assetLoader"
    /\ loaderSteps < MaxLoaderSteps
    /\ \E p \in LoaderPaths, content \in 1..MaxVersion :
         /\ getAssetFormat(p) = "unknown" => content = 1
         /\ disk[p] # content
         /\ disk' = [disk EXCEPT ![p] = content]
    /\ loaderSteps' = loaderSteps + 1
    /\ UNCHANGED <<tasks, assetCache, loadTimeCache, LoaderRest>>

\* outside the program: an asset file is removed
DeleteFile ==
    /\ OthersMayAct
    /\ \E p \in { q \in DOMAIN disk : ~isBlankPath(q) } :
         /\ disk[p] > 0
         /\ disk' = [disk EXCEPT ![p] = 0]
    /\ loaderSteps' = loaderSteps + 1
    /\ UNCHANGED <<tasks, assetCache, loadTimeCache, LoaderRest>>

\* a fresh process: nothing cached, no call made; the SVG and the PNG are
\* on disk or not, the other files are (any of them may be removed later)
LoaderInit ==
    /\ pc = "assetLoader"
    /\ disk \in { d \in [LoaderPaths \cup (BlankLoaderPaths \ {""}) -> {0, 1}] :
                    \A p \in DOMAIN d : getAssetFormat(p) = "unknown" => d[p] = 1 }
    /\ tasks = [t \in TaskIds |-> IdleTask]
    /\ assetCache = NoAssets /\ loadTimeCache = {} /\ loaderSteps = 0
    /\ frameIn = NoCall /\ frameOut = NoCall /\ frameInfo = NoCall /\ frameTask = NoCall
    /\ assetLog = << >>
    /\ ComposeIdle /\ GapIdle /\ ScaleIdle /\ BorderIdle /\ FontIdle /\ GenIdle

LoaderNext ==
    \/ CallLoadAsset
    \/ CallLoadAssetWithSize
    \/ CallPreloadAssets
    \/ ContinuePreloadAssets
    \/ ResumeLoadAsset
    \/ FinishLoadAssetWithSize
    \/ CallClearAssetCache
    \/ WriteFile
    \/ DeleteFile

LoaderSpec == LoaderInit /\ [][LoaderNext]_vars

Next ==
    \/ CallCalculateFontSize
    \/ CallCreateTextSvg
    \/ CallWrapText
    \/ CallRenderBorder
    \/ CallRenderFrame
    \/ RenderFrameAssetDecoded
    \/ RenderFrameTileRendered
    \/ RenderFrameComposited
    \/ CallClearAssetCache
    \/ DeleteFile
    \/ CallGetFrameRenderInfo
    \/ ComposeStart
    \/ ComposeBackground
    \/ ComposeArtwork
    \/ ComposeArtworkBorder
    \/ ComposeTextBoxBackgrounds
    \/ ComposeTextContent
    \/ CallValidateBorderGap
    \/ CallApplyScaleFactor
    \/ CallApplyScalePreset

Spec == Init /\ [][Next]_vars

-----------------------------------------------------------------------------
(* Properties                                                              *)

ComposeRunning ==
    {"background", "artwork", "artworkBorder", "textBoxBackgrounds", "textContent", "done"}

\* the geometry of a rect, without its id
Geometry(r) == [x |-> r.x, y |-> r.y, width |-> r.width, height |-> r.height]

\* the 6 rects of a layout: illustration frame, title panel, 4 content panels
SixRects(l) == << Geometry(l.artworkFrame) >> \o [i \in 1..5 |-> Geometry(getAllTextBoxes(l)[i])]

LayerRect(ly) == [x |-> ly.left, y |-> ly.top, width |-> ly.width, height |-> ly.height]

LayersOfKind(kind) == SelectSeq(layers, LAMBDA ly : ly.kind = kind)

\* C1: the standard preset returns the catalogue entry itself, rect for
\* rect, for all 4 variants, and a composeCard call with scalePreset
\* 'standard' or with none works on the catalogue rects
C1_StandardScaleIsIdentity ==
    /\ (pc = "presetDone" /\ scaleIn.preset = "standard")
          => scaleOut = LAYOUT_VARIANTS[scaleIn.variant]
    /\ (pc \in ComposeRunning /\ opts.scalePreset \in {"standard", "undefined"})
          => /\ layout = baseLayoutOf(opts)
             /\ \A k \in DOMAIN layers :
                   /\ layers[k].kind = "artwork"
                         => LayerRect(layers[k]) = Geometry(baseLayoutOf(opts).artworkFrame)
                   /\ layers[k].kind \in {"panelBackground", "text"}
                         => \E b \in 1..5 :
                               /\ getAllTextBoxes(baseLayoutOf(opts))[b].id = layers[k].id
                               /\ LayerRect(layers[k])
                                     = Geometry(getAllTextBoxes(baseLayoutOf(opts))[b])

C1_Witness ==
    /\ pc = "presetDone" /\ scaleIn.preset = "standard" /\ scaleIn.variant = "portrait-flat"
    /\ SixRects(scaleOut)[6] = Frame(409, 830, 215, 90)

\* the next larger preset of the chain mini < slim < compact < moderate < standard
NextLarger(preset) ==
    CASE preset = "mini" -> "slim"
      [] preset = "slim" -> "compact"
      [] preset = "compact" -> "moderate"
      [] preset = "moderate" -> "standard"

InsideCanvas(r, canvas) ==
    r.x >= 0 /\ r.y >= 0 /\ r.x + r.width <= canvas.width /\ r.y + r.height <= canvas.height

\* C2: each of the 6 scaled rects is strictly narrower than the same rect
\* under the next larger preset, lies inside the canvas, and the canvas
\* keeps its size
C2_ScaleMonotoneInsideCanvas ==
    pc = "presetDone" =>
       LET cat == LAYOUT_VARIANTS[scaleIn.variant]
       IN  /\ scaleOut.canvas = cat.canvas
           /\ \A i \in 1..6 :
                 /\ InsideCanvas(SixRects(scaleOut)[i], cat.canvas)
                 /\ scaleIn.preset # "standard"
                       => SixRects(scaleOut)[i].width
                             < SixRects(applyScalePreset(cat, NextLarger(scaleIn.preset)))[i].width

C2_Witness ==
    /\ pc = "presetDone" /\ scaleIn.preset = "mini" /\ scaleIn.variant = "portrait-square"
    /\ SixRects(scaleOut)[2] = Frame(216, 553, 336, 49)

\* the rect a border layer was rendered for
BorderedRect(ly) ==
    IF ly.kind = "artworkBorder"
    THEN Geometry(layout.artworkFrame)
    ELSE Geometry(CHOOSE b \in {getAllTextBoxes(layout)[i] : i \in 1..5} : b.id = ly.id)

\* the per-edge footprint, in quarter pixels, of the border kind of a layer
FootprintOf(ly) ==
    IF ly.kind = "artworkBorder"
    THEN calculateTotalBorderSpace(getArtworkBorderDimensions(local.glowConfig))
    ELSE calculateTotalBorderSpace(getTextBoxBorderDimensions(local.glowConfig))

IsBorderLayer(ly) == ly.kind \in {"artworkBorder", "panelBorder"}

CanvasErrors == SelectSeq(validation.errors, LAMBDA e :
                    e.kind \in {"artworkCanvas", "titleCanvas", "contentCanvas"})

GapErrors == SelectSeq(validation.errors, LAMBDA e :
                    e.kind \in {"artworkTitleGap", "titleContentGap", "contentGap"})

\* C3: for every variant, scale preset and glow intensity, each of the 6
\* rects expanded by its border footprint stays inside the canvas, so no
\* border layer is placed at a negative origin and the clamp at 0 never
\* moves a border layer
C3_BordersInsideCanvas ==
    pc \in ComposeRunning =>
       /\ CanvasErrors = << >>
       /\ \A i \in 1..6 :
             LET r == SixRects(layout)[i]
                 f == IF i = 1
                      THEN calculateTotalBorderSpace(getArtworkBorderDimensions(local.glowConfig))
                      ELSE calculateTotalBorderSpace(getTextBoxBorderDimensions(local.glowConfig))
             IN  /\ r.x * Q - f >= 0 /\ r.y * Q - f >= 0
                 /\ (r.x + r.width) * Q + f <= layout.canvas.width * Q
                 /\ (r.y + r.height) * Q + f <= layout.canvas.height * Q
       /\ \A k \in DOMAIN layers :
             IsBorderLayer(layers[k]) =>
                /\ layers[k].left * Q = BorderedRect(layers[k]).x * Q - FootprintOf(layers[k])
                /\ layers[k].top * Q = BorderedRect(layers[k]).y * Q - FootprintOf(layers[k])

C3_Witness ==
    /\ pc = "done" /\ opts.glowIntensity = "strong" /\ opts.layoutVariant = "landscape-square"
    /\ opts.scalePreset = "undefined"
    /\ LayersOfKind("artworkBorder")[1].left = 18

\* C4: for every variant, scale preset and glow intensity the borders keep
\* at least MIN_BORDER_GAP between them: validateLayoutBorders reports no
\* gap violation
C4_NoGapViolation == pc \in ComposeRunning => GapErrors = << >>

\* the stroke of an SvgRect covers strokeWidth / 2 on either side of its path
StrokeInnerLeft(r) == r.x + r.strokeWidth \div 2

StrokeInnerTop(r) == r.y + r.strokeWidth \div 2

StrokeInnerRight(r) == r.x + r.width - r.strokeWidth \div 2

StrokeInnerBottom(r) == r.y + r.height - r.strokeWidth \div 2

\* the opening left by the innermost ring of a border layer, on the card,
\* in quarter pixels
Opening(ly) ==
    [left |-> ly.left * Q + StrokeInnerLeft(ly.input.innerStroke),
     top |-> ly.top * Q + StrokeInnerTop(ly.input.innerStroke),
     right |-> ly.left * Q + StrokeInnerRight(ly.input.innerStroke),
     bottom |-> ly.top * Q + StrokeInnerBottom(ly.input.innerStroke)]

RectEdges(r) ==
    [left |-> r.x * Q, top |-> r.y * Q,
     right |-> (r.x + r.width) * Q, bottom |-> (r.y + r.height) * Q]

\* C5: the inner edge of the hairline of every composited border layer lies
\* on the four edges of the rect the border was rendered for
C5_BorderOpeningIsRect ==
    \A k \in DOMAIN layers :
       IsBorderLayer(layers[k]) => Opening(layers[k]) = RectEdges(BorderedRect(layers[k]))

\* the footprint-expanded extents of the two frames of a validateBorderGap
\* call, in quarter pixels
Expanded(frame, border) ==
    [left |-> frame.x * Q - calculateTotalBorderSpace(border),
     right |-> (frame.x + frame.width) * Q + calculateTotalBorderSpace(border),
     top |-> frame.y * Q - calculateTotalBorderSpace(border),
     bottom |-> (frame.y + frame.height) * Q + calculateTotalBorderSpace(border)]

E1 == Expanded(gapIn.frame1, gapIn.border1)

E2 == Expanded(gapIn.frame2, gapIn.border2)

\* the distance between two extents that do not meet, -1 when they meet
Distance(lo1, hi1, lo2, hi2) ==
    IF hi1 < lo2 THEN lo2 - hi1 ELSE IF hi2 < lo1 THEN lo1 - hi2 ELSE -1

DistanceX == Distance(E1.left, E1.right, E2.left, E2.right)

DistanceY == Distance(E1.top, E1.bottom, E2.top, E2.bottom)

\* C6: rects adjacent along one axis pass when the expanded rects are
\* exactly minGap apart along that axis and fail when they are minGap - 1
\* apart (touching, when minGap is 1), in both argument orders
C6_GapBoundary ==
    pc = "gapDone" =>
       /\ (DistanceY = -1 /\ DistanceX = gapIn.minGap * Q) => gapOut = TRUE
       /\ (DistanceX = -1 /\ DistanceY = gapIn.minGap * Q) => gapOut = TRUE
       /\ (DistanceY = -1 /\ E1.right < E2.right /\ E2.left - E1.right = (gapIn.minGap - 1) * Q)
             => gapOut = FALSE
       /\ (DistanceY = -1 /\ E2.right < E1.right /\ E1.left - E2.right = (gapIn.minGap - 1) * Q)
             => gapOut = FALSE
       /\ (DistanceX = -1 /\ E1.bottom < E2.bottom /\ E2.top - E1.bottom = (gapIn.minGap - 1) * Q)
             => gapOut = FALSE
       /\ (DistanceX = -1 /\ E2.bottom < E1.bottom /\ E1.top - E2.bottom = (gapIn.minGap - 1) * Q)
             => gapOut = FALSE

C6_Witness ==
    /\ pc = "gapDone" /\ gapIn.swapped /\ gapIn.minGap = 2
    /\ calculateTotalBorderSpace(gapIn.border1) = 2 * Q
    /\ calculateTotalBorderSpace(gapIn.border2) = Q
    /\ DistanceY = -1 /\ DistanceX = 2 * Q
    /\ gapOut = TRUE

\* a corner of frame1 lies on a corner of frame2 and the frames share no
\* other point: their x-extents and their y-extents each meet at one coordinate
CornerTouch(f1, f2) ==
    /\ f1.x + f1.width = f2.x \/ f2.x + f2.width = f1.x
    /\ f1.y + f1.height = f2.y \/ f2.y + f2.height = f1.y

\* C7 as stated: corner-touching rects pass for every footprint and minGap
C7_CornerTouchPasses ==
    (pc = "gapDone" /\ CornerTouch(gapIn.frame1, gapIn.frame2)) => gapOut = TRUE

\* C7 as amended: corner-touching rects fail for every footprint and every
\* minGap (extents that meet count as overlapping, on both axes); rects whose
\* expanded extents are apart on both axes pass for every minGap
C7_DiagonalNeedsSeparation ==
    pc = "gapDone" =>
       /\ CornerTouch(gapIn.frame1, gapIn.frame2) => gapOut = FALSE
       /\ (DistanceX > 0 /\ DistanceY > 0) => gapOut = TRUE

C7_Witness ==
    /\ pc = "gapDone" /\ CornerTouch(gapIn.frame1, gapIn.frame2)
    /\ calculateTotalBorderSpace(gapIn.border1) = 0
    /\ calculateTotalBorderSpace(gapIn.border2) = 0
    /\ gapOut = FALSE

BuffersDecodable == opts.backgroundBuffer = "image" /\ opts.artworkBuffer = "image"

\* C8: a layout that fails validation is composed all the same: with
\* decodable images the call never fails, runs every stage and ends with
\* the layers on the rects of the resolved layout
C8_ValidationIsAdvisory ==
    (pc \in ComposeRunning \cup {"failed"} /\ ~validation.valid /\ BuffersDecodable) =>
       /\ pc # "failed"
       /\ error = ""
       /\ layout = composeLayout(opts)
       /\ pc = "done" =>
             /\ Len(LayersOfKind("background")) = 1
             /\ Len(LayersOfKind("artworkBorder")) = 1
             /\ LayerRect(LayersOfKind("artwork")[1]) = Geometry(composeLayout(opts).artworkFrame)
             /\ [i \in 1..5 |-> LayerRect(LayersOfKind("panelBackground")[i])]
                   = [i \in 1..5 |-> Geometry(getAllTextBoxes(composeLayout(opts))[i])]
             /\ Len(LayersOfKind("panelBorder")) = 5

C8_Witness ==
    /\ pc = "done" /\ ~validation.valid
    /\ opts.scalePreset = "mini" /\ opts.glowIntensity = "strong"
    /\ Len(layers) = 18

KindId(ly) == << ly.kind, ly.id >>

\* the 13 layers every card has, bottom first
FixedOrder ==
    << <<"background", "">>, <<"artwork", "">>, <<"artworkBorder", "">>,
       <<"panelBackground", "title">>, <<"panelBorder", "title">>,
       <<"panelBackground", "content1">>, <<"panelBorder", "content1">>,
       <<"panelBackground", "content2">>, <<"panelBorder", "content2">>,
       <<"panelBackground", "content3">>, <<"panelBorder", "content3">>,
       <<"panelBackground", "content4">>, <<"panelBorder", "content4">> >>

PanelOrder == << "title", "content1", "content2", "content3", "content4" >>

PanelIndex(id) == CHOOSE i \in 1..5 : PanelOrder[i] = id

\* the number of layers on the card when a stage begins
LayersBefore(stage) ==
    CASE stage = "background" -> 0
      [] stage = "artwork" -> 1
      [] stage = "artworkBorder" -> 2
      [] stage = "textBoxBackgrounds" -> 3
      [] stage = "textContent" -> 13

\* C9: the layers are composited in the fixed order background,
\* illustration, illustration border, then per panel (title, content1..4)
\* its background and its border, and the text layers only after all of
\* them, in panel order; each stage starts on the complete output of the
\* stage before it
C9_LayerOrder ==
    pc \in ComposeRunning =>
       /\ \A k \in DOMAIN layers :
             IF k <= Len(FixedOrder)
             THEN KindId(layers[k]) = FixedOrder[k]
             ELSE /\ layers[k].kind = "text"
                  /\ layers[k].id \in PanelIds
                  /\ k > Len(FixedOrder) + 1
                        => /\ layers[k - 1].kind = "text"
                           /\ PanelIndex(layers[k - 1].id) < PanelIndex(layers[k].id)
       /\ pc # "done" => Len(layers) = LayersBefore(pc)
       /\ pc = "done" => Len(layers) >= Len(FixedOrder)

C9_Witness ==
    /\ pc = "done" /\ opts.textBoxes = AllFive
    /\ Len(layers) = 18
    /\ KindId(layers[14]) = <<"text", "title">>
    /\ KindId(layers[18]) = <<"text", "content4">>

HasTextLayer(id) == \E k \in DOMAIN layers : layers[k].kind = "text" /\ layers[k].id = id

EveryPanelHasBackgroundAndBorder ==
    \A id \in PanelIds :
       /\ \E k \in DOMAIN layers : KindId(layers[k]) = <<"panelBackground", id>>
       /\ \E k \in DOMAIN layers : KindId(layers[k]) = <<"panelBorder", id>>

\* C10 as stated: whatever the text entries, the call does not fail, all 5
\* panels have their background and border, and a panel has a glyph layer
\* exactly when some entry with its id has non-blank text
C10_GlyphIffSomeEntry ==
    /\ (pc = "failed" /\ BuffersDecodable) => FALSE
    /\ pc = "done" =>
          /\ EveryPanelHasBackgroundAndBorder
          /\ \A id \in PanelIds :
                HasTextLayer(id)
                   <=> \E i \in DOMAIN opts.textBoxes :
                          /\ opts.textBoxes[i].id = id
                          /\ trim(opts.textBoxes[i].text) # << >>

\* C10 as amended: ... exactly when the first entry with its id has
\* non-blank text (later entries with the same id are ignored)
C10_GlyphIffFirstEntry ==
    /\ (pc = "failed" /\ BuffersDecodable) => FALSE
    /\ pc = "done" =>
          /\ EveryPanelHasBackgroundAndBorder
          /\ \A id \in PanelIds :
                HasTextLayer(id)
                   <=> \E i \in DOMAIN opts.textBoxes :
                          /\ opts.textBoxes[i].id = id
                          /\ \A j \in 1..(i - 1) : opts.textBoxes[j].id # id
                          /\ trim(opts.textBoxes[i].text) # << >>

C10_Witness ==
    /\ pc = "done"
    /\ opts.textBoxes = << [id |-> "title", text |-> << " " >>],
                           [id |-> "title", text |-> << "a" >>] >>
    /\ ~HasTextLayer("title")
    /\ Len(layers) = 13

\* C11: a call whose illustration or background buffer is empty or does
\* not decode to an image with a width and a height fails with an error,
\* before any border or panel is drawn, and returns no image; this holds
\* whatever the scale preset and the glow are
C11_BadBufferFailsWhole ==
    /\ (pc \in ComposeRunning \cup {"failed"}
          /\ (opts.artworkBuffer # "image" \/ opts.backgroundBuffer # "image"))
       => /\ pc \in {"background", "artwork", "failed"}
          /\ result = NoImage
    /\ pc = "failed" => (error # "" /\ result = NoImage)
    /\ pc = "done" => result = [image |-> layers]

C11_Witness ==
    /\ pc = "failed"
    /\ opts.artworkBuffer = "corrupt" /\ opts.backgroundBuffer = "image"
    /\ opts.scalePreset = "mini" /\ opts.glowIntensity = "strong"
    /\ Len(layers) = 1
    /\ result = NoImage

\* the orientation a variant id names
OrientationOf(variant) ==
    IF variant \in {"landscape-square", "landscape-flat"} THEN "landscape" ELSE "portrait"

\* the variant a legacy mode stands for
LegacyVariant(mode) == IF mode = "portrait" THEN "portrait-square" ELSE "landscape-square"

\* the catalogue entry the options select, by the stated precedence
SelectedVariant(o) ==
    IF o.layoutVariant # "undefined" THEN o.layoutVariant ELSE LegacyVariant(o.layoutMode)

\* the rects the composited layers sit on: illustration, then the 5 panels
PlacedRects ==
    << LayerRect(LayersOfKind("artwork")[1]) >>
       \o [i \in 1..5 |-> LayerRect(LayersOfKind("panelBackground")[i])]

\* C12: with a variant and a legacy mode both given, the canvas, the 6
\* rects and the orientation are the variant's, for all 8 combinations;
\* the legacy mode (landscape -> landscape-square, portrait ->
\* portrait-square) decides only when no variant is given
C12_VariantOverMode ==
    (pc \in ComposeRunning /\ opts.scalePreset = "undefined") =>
       /\ layout.canvas = LAYOUT_VARIANTS[SelectedVariant(opts)].canvas
       /\ SixRects(layout) = SixRects(LAYOUT_VARIANTS[SelectedVariant(opts)])
       /\ local.effectiveLayoutMode = OrientationOf(SelectedVariant(opts))
       /\ pc = "done" =>
             /\ PlacedRects = SixRects(LAYOUT_VARIANTS[SelectedVariant(opts)])
             /\ LayersOfKind("background")[1].width
                   = LAYOUT_VARIANTS[SelectedVariant(opts)].canvas.width
             /\ LayersOfKind("background")[1].height
                   = LAYOUT_VARIANTS[SelectedVariant(opts)].canvas.height

C12_Witness ==
    /\ pc = "done"
    /\ opts.layoutVariant = "portrait-flat" /\ opts.layoutMode = "landscape"
    /\ layout.canvas = [width |-> 768, height |-> 1024]
    /\ local.effectiveLayoutMode = "portrait"
    /\ PlacedRects[1] = Geometry(LAYOUT_VARIANTS["portrait-flat"].artworkFrame)

\* the anchor the stated rule gives: the caller's when supplied, else top
\* for a portrait layout and center for a landscape one
ExpectedAnchor(o) ==
    IF o.cropAnchor # "undefined" THEN o.cropAnchor
    ELSE IF OrientationOf(SelectedVariant(o)) = "portrait" THEN "top"
    ELSE "center"

\* the sharp gravity that keeps the named part of the illustration
GravityOf(anchor) ==
    CASE anchor = "top" -> "north"
      [] anchor = "center" -> "centre"
      [] anchor = "bottom" -> "south"

\* C13: the illustration is cover-fitted with the caller's crop anchor
\* whenever one is supplied; otherwise with 'top' on a portrait layout and
\* 'center' on a landscape one, the orientation being the variant's when a
\* variant is given and the legacy mode's otherwise
C13_CropAnchor ==
    pc \in ComposeRunning =>
       /\ local.effectiveCropAnchor = ExpectedAnchor(opts)
       /\ \A k \in DOMAIN layers :
             layers[k].kind = "artwork"
                => layers[k].input = [fit |-> "cover", position |-> GravityOf(ExpectedAnchor(opts))]

C13_Witness ==
    /\ pc = "done"
    /\ opts.cropAnchor = "undefined"
    /\ opts.layoutVariant = "portrait-flat" /\ opts.layoutMode = "landscape"
    /\ LayersOfKind("artwork")[1].input.position = "north"

\* the card a renderFrame call was given
GivenCard == CardBuffer(frameIn.options.cardWidth, frameIn.options.cardHeight)

\* C14: with preset 'none' renderFrame returns the very buffer it was
\* given, for every card size, layout variant and override, and touches
\* neither the asset files nor the asset cache: no access is logged and
\* the cache is what it was before the call
C14_NonePassthrough ==
    (pc = "frameDone" /\ frameIn.options.presetId = "none") =>
       /\ frameOut = [outcome |-> "returned", buffer |-> GivenCard, error |-> ""]
       /\ assetLog = << >>
       /\ assetCache = frameIn.cache
       /\ loadTimeCache = { p \in AssetPaths : frameIn.cache[p] # Absent }

C14_Witness ==
    /\ pc = "frameDone" /\ frameIn.options.presetId = "none"
    /\ frameIn.cache = WarmCache("cyber") /\ frameIn.files = {}
    /\ frameIn.options.layoutVariant = "portrait-flat"
    /\ frameOut.buffer = GivenCard
    /\ assetCache = WarmCache("cyber")

\* a renderFrame call with a decorative preset has returned the framed card
Framed ==
    /\ pc = "frameDone"
    /\ frameIn.options.presetId \in DECORATIVE_PRESET_IDS
    /\ frameOut.outcome = "returned"

FramePreset == FRAME_PRESETS[frameIn.options.presetId]

CardW == frameIn.options.cardWidth

CardH == frameIn.options.cardHeight

\* the orientation scale factor, in percent
OrientationFactor ==
    IF frameIn.options.layoutVariant \in {"portrait-square", "portrait-flat"} THEN 95 ELSE 100

\* the entries of the composite that a loop pass pushed
Placed(part) == SelectSeq(frameOut.buffer.composite, LAMBDA ci : ci.part = part)

IsPlaced(part) == Len(Placed(part)) = 1

\* the inset the stated rule gives
ClampedInset ==
    LET given == IF frameIn.options.insetOffset = << >>
                 THEN FramePreset.insetOffset
                 ELSE frameIn.options.insetOffset[1]
    IN  IF given < 0 THEN 0 ELSE IF given > 20 THEN 20 ELSE given

\* the scaled corner size and the thickness the strips are placed with
ScaledCorner == (FramePreset.cornerSize * OrientationFactor * 2 + 100) \div 200

PlacementThickness ==
    LET t == IF frameIn.options.borderThickness = << >>
             THEN FramePreset.borderThickness
             ELSE frameIn.options.borderThickness[1]
    IN  (t * OrientationFactor * 2 + 100) \div 200

\* C15: for every decorative preset and every inset override, negative and
\* above 20 included, all 4 corners and every rendered edge strip are
\* placed with the inset min(20, max(0, override if given else the preset
\* default))
C15_InsetClamped ==
    Framed =>
       /\ \A part \in CornerPositions : IsPlaced(part)
       /\ Placed("top-left")[1].left = ClampedInset
       /\ Placed("top-left")[1].top = ClampedInset
       /\ Placed("top-right")[1].left = CardW - ScaledCorner - ClampedInset
       /\ Placed("top-right")[1].top = ClampedInset
       /\ Placed("bottom-left")[1].left = ClampedInset
       /\ Placed("bottom-left")[1].top = CardH - ScaledCorner - ClampedInset
       /\ Placed("bottom-right")[1].left = CardW - ScaledCorner - ClampedInset
       /\ Placed("bottom-right")[1].top = CardH - ScaledCorner - ClampedInset
       /\ IsPlaced("top") =>
             /\ Placed("top")[1].left = ScaledCorner + ClampedInset
             /\ Placed("top")[1].top = ClampedInset
       /\ IsPlaced("bottom") =>
             /\ Placed("bottom")[1].left = ScaledCorner + ClampedInset
             /\ Placed("bottom")[1].top = CardH - PlacementThickness - ClampedInset
       /\ IsPlaced("left") =>
             /\ Placed("left")[1].left = ClampedInset
             /\ Placed("left")[1].top = ScaledCorner + ClampedInset
       /\ IsPlaced("right") =>
             /\ Placed("right")[1].left = CardW - PlacementThickness - ClampedInset
             /\ Placed("right")[1].top = ScaledCorner + ClampedInset

C15_Witness ==
    /\ Framed
    /\ frameIn.options.presetId = "classic"
    /\ frameIn.options.insetOffset = << -5 >>
    /\ CardW = 1024 /\ CardH = 768
    /\ Placed("top-left")[1].left = 0
    /\ Placed("bottom")[1].left = 110
    /\ Len(frameOut.buffer.composite) = 8

\* a picture mirrored left to right, and top to bottom, quadrant by quadrant
MirrorH(image) ==
    [image EXCEPT !.px = << image.px[2], image.px[1], image.px[4], image.px[3] >>]

MirrorV(image) ==
    [image EXCEPT !.px = << image.px[3], image.px[4], image.px[1], image.px[2] >>]

CornerTile(part) == Placed(part)[1].input

\* the corner asset resized to the scaled corner size, not mirrored
SourceTile ==
    [source |-> FramePreset.cornerAsset, px |-> << 1, 2, 3, 4 >>,
     width |-> ScaledCorner, height |-> ScaledCorner]

\* C16: for every decorative preset and scale factor the top-left tile is
\* the resized source tile, the top-right tile its horizontal mirror, the
\* bottom-left tile its vertical mirror and the bottom-right tile its
\* 180-degree rotation (both mirrors combined)
C16_CornerMirrors ==
    Framed =>
       /\ CornerTile("top-left") = SourceTile
       /\ CornerTile("top-right") = MirrorH(CornerTile("top-left"))
       /\ CornerTile("bottom-left") = MirrorV(CornerTile("top-left"))
       /\ CornerTile("bottom-right") = MirrorH(MirrorV(CornerTile("top-left")))
       /\ CornerTile("bottom-right") = MirrorV(MirrorH(CornerTile("top-left")))

C16_Witness ==
    /\ Framed
    /\ frameIn.options.presetId = "classic"
    /\ frameIn.options.layoutVariant = "portrait-flat"
    /\ CornerTile("top-right").px = << 2, 1, 4, 3 >>
    /\ CornerTile("bottom-right").px = << 4, 3, 2, 1 >>
    /\ CornerTile("bottom-right").width = 105

\* the stated strip lengths
HorizontalLength == CardW - 2 * (ScaledCorner + ClampedInset)

VerticalLength == CardH - 2 * (ScaledCorner + ClampedInset)

\* the length a rendered strip tile runs along its edge
TileLength(part) ==
    IF part \in {"top", "bottom"} THEN Placed(part)[1].input.width
    ELSE Placed(part)[1].input.height

StatedLength(part) ==
    IF part \in {"top", "bottom"} THEN HorizontalLength ELSE VerticalLength

\* C17: the top and bottom strips have length cardWidth - 2 x (scaled
\* corner size + effective inset), the left and right strips cardHeight -
\* 2 x (the same); a strip is in the composite exactly when its length is
\* positive, and with strips left out the call still returns the card
\* with its 4 corners (the asset files being on disk throughout the call)
C17_StripLengths ==
    (pc = "frameDone" /\ frameIn.options.presetId \in DECORATIVE_PRESET_IDS
        /\ FilesOn(disk) = AssetPaths) =>
       /\ frameOut.outcome = "returned" /\ frameOut.error = ""
       /\ frameOut.buffer.base = GivenCard
       /\ \A part \in CornerPositions : IsPlaced(part)
       /\ \A part \in {"top", "right", "bottom", "left"} :
             /\ IsPlaced(part) <=> StatedLength(part) > 0
             /\ IsPlaced(part) => TileLength(part) = StatedLength(part)
       /\ Len(frameOut.buffer.composite)
             = 4 + (IF HorizontalLength > 0 THEN 2 ELSE 0) + (IF VerticalLength > 0 THEN 2 ELSE 0)

C17_Witness ==
    /\ Framed
    /\ frameIn.options.presetId = "cyber" /\ frameIn.options.insetOffset = << >>
    /\ frameIn.options.layoutVariant = "landscape-flat"
    /\ CardW = 220 /\ CardH = 1024
    /\ HorizontalLength = 0 /\ VerticalLength = 804
    /\ ~IsPlaced("top") /\ ~IsPlaced("bottom")
    /\ TileLength("left") = 804
    /\ Len(frameOut.buffer.composite) = 6

\* the thickness of a rendered strip tile, across its edge
TileThickness(part) ==
    IF part \in {"top", "bottom"} THEN Placed(part)[1].input.height
    ELSE Placed(part)[1].input.width

\* C18: with an edge-thickness override every strip is rendered
\* round(override x orientation scale factor) thick, the thickness its
\* placement was computed with, so that the bottom strip ends at
\* cardHeight - inset and the right strip at cardWidth - inset
C18_OverrideThicknessRendered ==
    (Framed /\ frameIn.options.borderThickness # << >>) =>
       /\ \A part \in {"top", "right", "bottom", "left"} :
             IsPlaced(part) => TileThickness(part) = PlacementThickness
       /\ IsPlaced("bottom") =>
             Placed("bottom")[1].top + TileThickness("bottom") = CardH - ClampedInset
       /\ IsPlaced("right") =>
             Placed("right")[1].left + TileThickness("right") = CardW - ClampedInset

\* the border layer the same call yields with GlowIntensity 'none'
WithGlowNone ==
    IF borderIn.kind = "artwork"
    THEN renderDoubleLineArtworkBorder(borderIn.frame, << GLOW_PRESETS["none"] >>)
    ELSE renderDoubleLineTextBoxBorder(borderIn.frame, << GLOW_PRESETS["none"] >>)

\* the ring widths of a border kind: outer ring, gap, inner ring and the 2
\* px of the hairline, in quarter pixels
RingWidths(kind) == IF kind = "artwork" THEN 10 * Q ELSE 8 * Q

GlowOff(glowConfig) == glowConfig # << >> /\ glowConfig[1].opacity = 0

\* C19: for both border kinds and every rect, a glow config with the
\* filter disabled (opacity 0) yields the border layer of GlowIntensity
\* 'none': no glow padding, a bounding box of rect + 2 x ring widths,
\* placed at rect origin - ring widths, the same three rings, no filter
\* defined and none attached to the outer stroke
C19_GlowNoneIsGlowOff ==
    (pc = "borderDone" /\ GlowOff(borderIn.glowConfig)) =>
       /\ borderOut = WithGlowNone
       /\ borderOut.buffer.width = borderIn.frame.width * Q + 2 * RingWidths(borderIn.kind)
       /\ borderOut.buffer.height = borderIn.frame.height * Q + 2 * RingWidths(borderIn.kind)
       /\ borderOut.x = borderIn.frame.x * Q - RingWidths(borderIn.kind)
       /\ borderOut.y = borderIn.frame.y * Q - RingWidths(borderIn.kind)
       /\ borderOut.buffer.filterDef = << >>
       /\ ~borderOut.buffer.outerLine.filter
       /\ ~borderOut.buffer.innerLine.filter
       /\ ~borderOut.buffer.innerStroke.filter

C19_Witness ==
    /\ pc = "borderDone"
    /\ borderIn.kind = "textBox"
    /\ borderIn.glowConfig = << [blur |-> 6 * Q, opacity |-> 0, spread |-> 3 * Q] >>
    /\ borderIn.frame = Frame(480, 40, 504, 100)
    /\ borderOut.x = (480 - 8) * Q
    /\ borderOut.buffer.width = (504 + 16) * Q

\* the sizes a panel kind can be given: base, base - 2, ..., 24
StepSizes(boxId) ==
    LET base == IF boxId = "title" THEN 48 ELSE 36
    IN  { size \in 24..base : (base - size) % 2 = 0 }

\* line-height of a panel kind, in tenths
LineHeightOf(boxId) == IF boxId = "title" THEN 13 ELSE 14

\* (wrapped line count at that size) x size x line-height <= panel height - 20
FitsAt(size) ==
    LET lines == calculateTextLines(fontIn.text, fontIn.boxWidth, size)
    IN  /\ ~lines.infinite
        /\ lines.count * size * LineHeightOf(fontIn.boxId) <= (fontIn.boxHeight - 20) * 10

\* the sizes above 24 that fit
LargerFits == { size \in StepSizes(fontIn.boxId) : size > 24 /\ FitsAt(size) }

\* C20: calculateFontSize returns a size of {base, base - 2, ..., 24},
\* never below 24: the largest size above 24 whose lines fit the panel
\* height less 20, and 24 when no larger size fits
C20_FontSizeSteps ==
    pc = "fontDone" =>
       /\ fontOut \in StepSizes(fontIn.boxId)
       /\ fontOut >= 24
       /\ IF LargerFits = {} THEN fontOut = 24
          ELSE fontOut \in LargerFits /\ \A size \in LargerFits : size <= fontOut

\* a title of two lines in a panel 100 px high: 2 x size x 1.3 <= 80 first
\* holds at size 30
C20_Witness ==
    /\ pc = "fontDone"
    /\ fontIn.boxId = "title"
    /\ fontIn.text = << "a", "\n", "a" >>
    /\ fontIn.boxWidth = 504
    /\ fontIn.boxHeight = 100
    /\ fontOut = 30

-----------------------------------------------------------------------------
(* The asset loader                                                        *)

\* in this step caller t enters loadAsset(p): a call of loadAsset, of
\* loadAssetWithSize or of preloadAssets begins, or preloadAssets takes its
\* next path
EntersLoadAsset(t, p) ==
    /\ tasks[t].stage \in {"idle", "done", "next"}
    /\ tasks'[t] # tasks[t]
    /\ tasks'[t].path = p

\* the accesses the call of caller t made in this step
StepLog(t) ==
    IF tasks[t].stage = "next"
    THEN SubSeq(tasks'[t].log, Len(tasks[t].log) + 1, Len(tasks'[t].log))
    ELSE tasks'[t].log

\* loadAsset(p) settled in this step with the buffer b
LoadedIs(t, b) ==
    IF tasks'[t].op = "loadAsset"
    THEN tasks'[t].stage = "done" /\ tasks'[t].outcome = "ok" /\ tasks'[t].buffer = b
    ELSE IF tasks'[t].op = "loadAssetWithSize"
    THEN tasks'[t].stage = "resizing" /\ tasks'[t].buffer = b
    ELSE tasks'[t].results # << >> /\ tasks'[t].results[Len(tasks'[t].results)].success

\* a loadAsset(p) entered while p is cached returns the cached buffer, looks
\* at the cache only and leaves the cache as it is
HitsServeTheCache ==
    \A t \in TaskIds, p \in LoaderPaths :
       (EntersLoadAsset(t, p) /\ assetCache[p] # Absent) =>
          /\ LoadedIs(t, assetCache[p])
          /\ StepLog(t) = << << "has", p >> >>
          /\ assetCache' = assetCache

\* this step is a call of clearAssetCache
ClearStep == assetLog' = Append(assetLog, << "clear" >>)

\* clearAssetCache leaves no path cached and no load time recorded
ClearEmptiesTheCache ==
    ClearStep => (/\ \A p \in DOMAIN assetCache' : assetCache'[p] = Absent
                  /\ loadTimeCache' = {})

\* a loadAsset(p) entered while p is not cached, as after clearAssetCache,
\* reads the file when there is one of a known format
ClearedMeansReadAgain ==
    \A t \in TaskIds, p \in LoaderPaths :
          (EntersLoadAsset(t, p) /\ assetCache[p] = Absent /\ disk[p] > 0
             /\ getAssetFormat(p) # "unknown")
          => \E i \in DOMAIN StepLog(t) : StepLog(t)[i] = << "read", p >>

\* a loadAsset(p) that missed the cache earlier and is converting the file
\* stores its own result in this step
StoresLate(p) ==
    \E t \in TaskIds :
       /\ tasks[t].stage = "decoding" /\ tasks[t].path = p
       /\ tasks'[t].stage # "decoding"
       /\ assetCache'[p] = AssetBytes(p, tasks[t].content)

\* a loadAsset(p) that misses the cache and reads a file that needs no
\* conversion stores the bytes it has read in this step
StoresAtOnce(p) ==
    \E t \in TaskIds :
       /\ tasks[t].stage \in {"idle", "done", "next"} /\ tasks'[t].path = p
       \* the caller that moved, or one whose call repeats its last one
       /\ tasks'[t] # tasks[t] \/ (tasks' = tasks /\ loaderSteps' # loaderSteps)
       /\ assetCache[p] = Absent
       /\ \E i \in DOMAIN StepLog(t) : StepLog(t)[i] = << "read", p >>
       /\ assetCache'[p] = AssetBytes(p, disk[p])

\* a path gets cached only by a loadAsset(p) that has read the file itself:
\* at once, or when its conversion is done, which may be after a
\* clearAssetCache made in between
CachedOnlyByItsReader ==
    \A p \in LoaderPaths :
       (assetCache[p] = Absent /\ assetCache'[p] # Absent)
       => (StoresAtOnce(p) \/ StoresLate(p))

\* C21 as stated: once p is cached its bytes stay the same for every later
\* loadAsset(p), whatever calls are made, until clearAssetCache; later
\* calls read nothing; after clearAssetCache nothing is cached and the
\* file is read again
C21_CachedBytesNeverChange ==
    [][/\ HitsServeTheCache
       /\ ClearEmptiesTheCache
       /\ ClearedMeansReadAgain
       /\ \A p \in LoaderPaths :
             (assetCache[p] # Absent /\ ~ClearStep) => assetCache'[p] = assetCache[p]]_vars

\* C21 amended: a later loadAsset(p) returns the bytes cached for p at that
\* time and reads nothing, until clearAssetCache; the cached bytes are
\* replaced only by a loadAsset(p) that had missed the cache before and
\* stores its own result (last write wins); clearAssetCache leaves no path
\* cached; from then on p is cached again only by a loadAsset(p) that read
\* the file itself, one that was converting it during the clear included,
\* and a loadAsset(p) that finds p not cached reads the file again
C21_CachedUntilCleared ==
    [][/\ HitsServeTheCache
       /\ ClearEmptiesTheCache
       /\ ClearedMeansReadAgain
       /\ CachedOnlyByItsReader
       /\ \A p \in LoaderPaths :
             (assetCache[p] # Absent /\ ~ClearStep)
             => (assetCache'[p] = assetCache[p] \/ StoresLate(p))]_vars

\* a second loadAsset of the SVG returned the bytes of content 1 from the
\* cache, reading nothing, after the file had been replaced; then
\* clearAssetCache left nothing cached
C21_Witness ==
    /\ pc = "assetLoader"
    /\ \A p \in DOMAIN assetCache : assetCache[p] = Absent
    /\ loadTimeCache = {}
    /\ tasks[1].op = "loadAsset" /\ tasks[1].path = "frames/cyber/corner.svg"
    /\ tasks[1].outcome = "ok"
    /\ Len(tasks[1].log) = 4
    /\ tasks[2].op = "loadAsset" /\ tasks[2].path = "frames/cyber/corner.svg"
    /\ tasks[2].outcome = "ok"
    /\ tasks[2].log = << << "has", "frames/cyber/corner.svg" >> >>
    /\ tasks[2].buffer = AssetBytes("frames/cyber/corner.svg", 1)
    /\ disk["frames/cyber/corner.svg"] = 2

\* the paths loadAsset can load: files of a known format
Loadable == { p \in LoaderPaths : getAssetFormat(p) # "unknown" }

\* a loadAsset call on an existing file that misses the cache is not
\* rejected: it either returns the bytes of the file or goes on to convert
\* what it has read
MissesAreServed ==
    \A t \in TaskIds, p \in Loadable :
       (EntersLoadAsset(t, p) /\ tasks'[t].op = "loadAsset"
          /\ assetCache[p] = Absent /\ disk[p] > 0)
       => \/ /\ tasks'[t].stage = "decoding" /\ tasks'[t].content = disk[p]
             /\ assetCache' = assetCache
          \/ /\ LoadedIs(t, AssetBytes(p, disk[p]))
             /\ assetCache' = [assetCache EXCEPT ![p] = AssetBytes(p, disk[p])]

\* a call that comes back from the conversion resolves with the bytes of
\* what it has read and its value is the one entry of the path, whatever
\* another call has stored there before
LastStoreWins ==
    \A t \in TaskIds, p \in Loadable :
       (tasks[t].stage = "decoding" /\ tasks[t].path = p /\ tasks'[t] # tasks[t])
       => /\ LoadedIs(t, AssetBytes(p, tasks[t].content))
          /\ assetCache' = [assetCache EXCEPT ![p] = AssetBytes(p, tasks[t].content)]

\* C22: concurrent loadAsset calls on an uncached, existing path all
\* resolve with bytes decoded from that path, in any interleaving, and the
\* cache holds one entry for the path: the value of the call that stored
\* last
C22_ConcurrentMissesLastWriteWins ==
    /\ [][MissesAreServed /\ LastStoreWins]_vars
    /\ [](\A p \in LoaderPaths :
            assetCache[p] # Absent =>
               /\ p \in Loadable
               /\ assetCache[p].source = p
               /\ assetCache[p].content \in 1..MaxVersion)

\* two calls on the SVG both missed the cache and converted the file, the
\* first its content 2 and the second its content 1; the first stored last
C22_Witness ==
    /\ pc = "assetLoader"
    /\ \A t \in TaskIds :
          /\ tasks[t].op = "loadAsset" /\ tasks[t].path = "frames/cyber/corner.svg"
          /\ tasks[t].stage = "done" /\ tasks[t].outcome = "ok"
          /\ Len(tasks[t].log) = 4
    /\ tasks[1].buffer = AssetBytes("frames/cyber/corner.svg", 2)
    /\ tasks[2].buffer = AssetBytes("frames/cyber/corner.svg", 1)
    /\ assetCache["frames/cyber/corner.svg"] = tasks[1].buffer
    /\ loaderSteps = 3

\* loadAsset(p) was entered in this step and threw the error
Threw(t, message) ==
    tasks'[t].stage = "done" /\ tasks'[t].outcome = "error" /\ tasks'[t].error = message

\* a loadAsset that throws adds nothing to the asset cache nor to the
\* load-time cache
FailuresCacheNothing ==
    \A t \in TaskIds, p \in LoaderPaths \cup BlankLoaderPaths :
       (EntersLoadAsset(t, p) /\ tasks'[t].op = "loadAsset" /\ tasks'[t].outcome = "error")
       => /\ assetCache' = assetCache /\ loadTimeCache' = loadTimeCache
          /\ tasks'[t].error \in {"asset not found", "unsupported format"}
          /\ tasks'[t].error = "unsupported format" => getAssetFormat(p) = "unknown"

\* C23 as stated: loadAsset(p) fails with asset-not-found whenever p does
\* not exist at the time of the call; a failed loadAsset caches nothing
C23_MissingFileAlwaysFails ==
    [][/\ \A t \in TaskIds, p \in LoaderPaths \cup BlankLoaderPaths :
             (EntersLoadAsset(t, p) /\ tasks'[t].op = "loadAsset" /\ p \notin FilesOn(disk))
             => Threw(t, "asset not found")
       /\ FailuresCacheNothing]_vars

\* C23 amended: loadAsset(p) fails with asset-not-found whenever p is not
\* cached and does not exist at the time of the call (a cached p is served
\* from the cache also when its file is gone); a failed loadAsset caches
\* nothing
C23_UncachedMissingFileFails ==
    [][/\ \A t \in TaskIds, p \in LoaderPaths \cup BlankLoaderPaths :
             (EntersLoadAsset(t, p) /\ tasks'[t].op = "loadAsset" /\ p \notin FilesOn(disk))
             => IF assetCache[p] = Absent THEN Threw(t, "asset not found")
                ELSE LoadedIs(t, assetCache[p])
       /\ FailuresCacheNothing]_vars

\* one call failed on the SVG that is not on disk, another on the file of
\* an unsupported format, and neither cache has an entry
C23_Witness ==
    /\ pc = "assetLoader"
    /\ tasks[1].op = "loadAsset" /\ tasks[1].path = "frames/cyber/corner.svg"
    /\ tasks[1].outcome = "error" /\ tasks[1].error = "asset not found"
    /\ disk["frames/cyber/corner.svg"] = 0
    /\ tasks[2].op = "loadAsset" /\ tasks[2].path = "frames/cyber/notes.txt"
    /\ tasks[2].outcome = "error" /\ tasks[2].error = "unsupported format"
    /\ disk["frames/cyber/notes.txt"] > 0
    /\ assetCache = NoAssets /\ loadTimeCache = {}

-----------------------------------------------------------------------------
(* Image generation                                                        *)

\* polling the task exceeded the maximum wait time
TimedOut ==
    /\ gen.stage = "thrown" /\ gen.at = "waitForTask"
    /\ ~withinWaitTime(gen.elapsed, gen.maxWaitTime)

\* the classification of the statuses 401, 429, 503 and 400
StatusCodeOf(status) ==
    CASE status = 401 -> "INVALID_API_KEY"
      [] status = 429 -> "RATE_LIMIT_EXCEEDED"
      [] status = 503 -> "SERVICE_UNAVAILABLE"
      [] status = 400 -> "INVALID_REQUEST"

\* C24: on both generation paths a polling timeout fails with a
\* ModelInferenceError whose getErrorCode is TIMEOUT, and an error with
\* HTTP status 401, 429, 503 or 400 is classified as auth, rate-limited,
\* unavailable and bad-request
C24_TimeoutClassified ==
    pc = "generation" =>
       /\ TimedOut =>
             /\ gen.thrown.name = "ModelInferenceError"
             /\ getErrorCode(gen.thrown) = "TIMEOUT"
       /\ \A status \in {401, 429, 503, 400} :
             (gen.stage = "thrown" /\ gen.thrown.statusCode = << status >>)
             => /\ gen.thrown.name = "ModelInferenceError"
                /\ getErrorCode(gen.thrown) = StatusCodeOf(status)

-----------------------------------------------------------------------------
(* Frame geometry                                                          *)

\* the rect a composited tile covers
TileRect(part) ==
    LET ci == Placed(part)[1]
    IN  [x |-> ci.left, y |-> ci.top, width |-> ci.input.width, height |-> ci.input.height]

\* the two orientations: 1024x768 at scale 1.0 and 768x1024 at scale 0.95
StandardOrientation ==
    \/ CardW = 1024 /\ CardH = 768 /\ OrientationFactor = 100
    \/ CardW = 768 /\ CardH = 1024 /\ OrientationFactor = 95

\* the horizontal strip runs from the right edge of corner a to the left
\* edge of corner b
JoinsAlongX(strip, a, b) ==
    /\ TileRect(strip).x = TileRect(a).x + TileRect(a).width
    /\ TileRect(strip).x + TileRect(strip).width = TileRect(b).x

\* the vertical strip runs from the bottom edge of corner a to the top edge
\* of corner b
JoinsAlongY(strip, a, b) ==
    /\ TileRect(strip).y = TileRect(a).y + TileRect(a).height
    /\ TileRect(strip).y + TileRect(strip).height = TileRect(b).y

\* the two rects share no pixel
Apart(r1, r2) ==
    \/ r1.x + r1.width <= r2.x \/ r2.x + r2.width <= r1.x
    \/ r1.y + r1.height <= r2.y \/ r2.y + r2.height <= r1.y

\* C25: for every decorative preset, both orientations and every effective
\* inset in [0,20], each strip starts where one corner tile ends and ends
\* where the next begins, overlaps no corner tile, and every corner tile
\* lies inside the canvas
C25_StripsJoinCorners ==
    (Framed /\ StandardOrientation) =>
       /\ \A part \in CornerPositions \cup {"top", "right", "bottom", "left"} : IsPlaced(part)
       /\ JoinsAlongX("top", "top-left", "top-right")
       /\ JoinsAlongX("bottom", "bottom-left", "bottom-right")
       /\ JoinsAlongY("left", "top-left", "bottom-left")
       /\ JoinsAlongY("right", "top-right", "bottom-right")
       /\ \A strip \in {"top", "right", "bottom", "left"}, corner \in CornerPositions :
             Apart(TileRect(strip), TileRect(corner))
       /\ \A corner \in CornerPositions :
             /\ TileRect(corner).x >= 0 /\ TileRect(corner).y >= 0
             /\ TileRect(corner).x + TileRect(corner).width <= CardW
             /\ TileRect(corner).y + TileRect(corner).height <= CardH

\* the fantasy preset on the portrait card with an inset of 7: the corner
\* tiles are 100 px, the top strip runs from 107 to 661
C25_Witness ==
    /\ Framed /\ StandardOrientation
    /\ frameIn.options.presetId = "fantasy" /\ CardW = 768
    /\ frameIn.options.insetOffset = << 7 >>
    /\ TileRect("top-left").width = 100
    /\ TileRect("top").x = 107
    /\ TileRect("top").x + TileRect("top").width = 661
    /\ TileRect("top-right").x = 661

\* the per-edge footprint validation uses for the border of this call
ValidationFootprint ==
    IF borderIn.kind = "artwork"
    THEN calculateTotalBorderSpace(getArtworkBorderDimensions(borderIn.glowConfig))
    ELSE calculateTotalBorderSpace(getTextBoxBorderDimensions(borderIn.glowConfig))

\* the glow the call is drawn with: the given one, medium when omitted
GlowGiven ==
    IF borderIn.glowConfig = Undefined THEN GLOW_PRESETS["medium"] ELSE borderIn.glowConfig[1]

\* outerWidth + gap + innerWidth + 2 + glow padding, in quarter pixels
PaddingPerEdge ==
    RingWidths(borderIn.kind)
    + (IF GlowGiven.opacity > 0 THEN MathCeil(GlowGiven.blur + GlowGiven.spread) * Q ELSE 0)

\* C26: for both border kinds and every glow configuration, an omitted
\* one included, the per-edge footprint validation computes equals the
\* padding the renderer adds on every edge of the rect (outerWidth + gap +
\* innerWidth + 2 + glow padding) and subtracts from the rect origin
C26_FootprintIsRenderedPadding ==
    pc = "borderDone" =>
       /\ ValidationFootprint = PaddingPerEdge
       /\ borderIn.frame.x * Q - borderOut.x = ValidationFootprint
       /\ borderIn.frame.y * Q - borderOut.y = ValidationFootprint
       /\ borderOut.buffer.width = borderIn.frame.width * Q + 2 * ValidationFootprint
       /\ borderOut.buffer.height = borderIn.frame.height * Q + 2 * ValidationFootprint

C26_Witness ==
    /\ pc = "borderDone"
    /\ borderIn.kind = "artwork"
    /\ borderIn.glowConfig = Undefined
    /\ borderIn.frame = Frame(40, 40, 390, 688)
    /\ ValidationFootprint = (10 + 9) * Q
    /\ borderOut.x = (40 - 19) * Q
    /\ borderOut.buffer.width = (390 + 38) * Q

-----------------------------------------------------------------------------
(* Frame render info                                                       *)

\* renderFrame composited a decorative frame and getFrameRenderInfo was
\* then asked about the same options
FramedAndReported ==
    /\ pc = "frameInfoDone"
    /\ frameIn.options.presetId \in DECORATIVE_PRESET_IDS
    /\ frameOut.outcome = "returned"

\* the inset override is omitted or lies in 0..20
InsetOverrideInRange ==
    \/ frameIn.options.insetOffset = << >>
    \/ frameIn.options.insetOffset[1] \in 0..20

\* the reported corner i is where renderFrame put that corner's tile
CornerReportedAsPlaced(i) ==
    LET reported == frameInfo.corners[i]
    IN  /\ IsPlaced(reported.position)
        /\ reported.coords.x = TileRect(reported.position).x
        /\ reported.coords.y = TileRect(reported.position).y

\* the reported strip i starts where renderFrame put that strip and runs
\* as far; a strip renderFrame skipped is reported with no length
StripReportedAsPlaced(i) ==
    LET reported == frameInfo.borders[i]
        along == IF reported.position \in {"top", "bottom"}
                 THEN reported.dims.width ELSE reported.dims.height
    IN  IF IsPlaced(reported.position)
        THEN /\ reported.dims.x = TileRect(reported.position).x
             /\ reported.dims.y = TileRect(reported.position).y
             /\ along = (IF reported.position \in {"top", "bottom"}
                         THEN TileRect(reported.position).width
                         ELSE TileRect(reported.position).height)
        ELSE along <= 0

\* C27: for every decorative preset and every FrameRenderOptions with an
\* inset override in 0..20, getFrameRenderInfo reports the effective inset,
\* the corner size, the corner coordinates and the strip rectangles that
\* renderFrame placed the tiles with
C27_InfoMatchesRenderFrame ==
    (FramedAndReported /\ InsetOverrideInRange) =>
       /\ frameInfo.outcome = "returned"
       /\ frameInfo.effectiveInsetOffset = TileRect("top-left").x
       /\ frameInfo.effectiveInsetOffset = TileRect("top-left").y
       /\ frameInfo.effectiveCornerSize = TileRect("top-left").width
       /\ \A i \in 1..Len(ALL_CORNERS) : CornerReportedAsPlaced(i)
       /\ \A i \in 1..Len(ALL_BORDERS) : StripReportedAsPlaced(i)

-----------------------------------------------------------------------------
(* Border preset                                                           *)

BorderPresetValues == {"gold", "silver", "bronze", "undefined"}

\* the layers a composeCard call with options o composites when it returns
ComposedLayers(o) ==
    LET l == composeLayout(o)
        glow == composeGlowConfig(o)
    IN  << backgroundLayer(l), artworkLayer(l, effectiveCropAnchorOf(o)),
           artworkBorderLayer(l, glow) >>
        \o renderTextBoxBackgrounds(l, o.borderPreset, glow)
        \o renderTextContent(o.textBoxes, l)

\* C28: a composeCard call composites the layers of the call that differs
\* from it only in borderPreset (gold, silver, bronze or omitted): the
\* same layers in the same order with the same shapes, sizes, colours and
\* positions
C28_BorderPresetChangesNoLayer ==
    pc = "done" =>
       \A b \in BorderPresetValues :
          /\ layers = ComposedLayers([opts EXCEPT !.borderPreset = b])
          /\ result.image = ComposedLayers([opts EXCEPT !.borderPreset = b])

C28_Witness ==
    /\ pc = "done"
    /\ opts.borderPreset = "gold"
    /\ opts.layoutVariant = "portrait-flat"
    /\ Len(layers) = 13
    /\ layers[5].kind = "panelBorder"
    /\ layers[5].input.gradientStops = << "#B8A080", "#8B7355", "#6B5335", "#8B7355", "#B8A080" >>
    /\ layers[5].input.gradientStops # BORDER_PRESETS["gold"].gradientColors

-----------------------------------------------------------------------------
(* Text wrapping                                                           *)

\* wrapText was called on a text box of a layout variant at a scale preset
WrappedOnPanel == pc = "wrapDone" /\ wrapIn.panel # << >>

\* floor((panelWidth - 40) / (fontSize x 0.8))
WrapCapacity == maxCharsPerLineOf(wrapIn.maxWidth, wrapIn.fontSize)

\* the lines, joined by line feeds, are the text with a line feed put in
\* after every full line that is followed by more of its paragraph
RECURSIVE Joined(_)
Joined(lines) ==
    IF lines = << >> THEN << >>
    ELSE IF Len(lines) = 1 THEN lines[1]
    ELSE lines[1] \o << "\n" >> \o Joined(Tail(lines))

WithoutFeeds(text) == SelectSeq(text, LAMBDA c : c # "\n")

\* C29: for every panel rect of every layout variant at every scale preset
\* and every font size 24..48 the line capacity floor((panelWidth - 40) /
\* (fontSize x 0.8)) is at least 1, so wrapText returns, no line is longer
\* than the capacity, and the number of lines is what calculateTextLines
\* counts
C29_WrapTerminatesWithinCapacity ==
    WrappedOnPanel =>
       /\ wrapIn.fontSize \in 24..48
       /\ WrapCapacity >= 1
       /\ ~wrapOut.diverges
       /\ \A i \in DOMAIN wrapOut.lines : Len(wrapOut.lines[i]) <= WrapCapacity
       /\ ~calculateTextLines(wrapIn.text, wrapIn.maxWidth, wrapIn.fontSize).infinite
       /\ Len(wrapOut.lines)
            = calculateTextLines(wrapIn.text, wrapIn.maxWidth, wrapIn.fontSize).count
       /\ WithoutFeeds(Joined(wrapOut.lines)) = WithoutFeeds(wrapIn.text)

\* the narrowest panel (portrait, mini: 151 px) at size 48 holds 2
\* characters a line: 26 characters wrap into 13 lines
C29_Witness ==
    /\ WrappedOnPanel
    /\ wrapIn.panel[1].variant = "portrait-flat" /\ wrapIn.panel[1].preset = "mini"
    /\ wrapIn.panel[1].box.id = "content1"
    /\ wrapIn.maxWidth = 151 /\ wrapIn.fontSize = 48
    /\ wrapIn.text = Run(26)
    /\ WrapCapacity = 2
    /\ Len(wrapOut.lines) = 13
    /\ wrapOut.lines[13] = << "a", "b" >>

-----------------------------------------------------------------------------
(* Text block height                                                       *)

\* calculateFontSize returned a size at which its own test finds the text
\* to fit, and createTextSvg laid the text out at that size
AcceptedAndLaidOut ==
    /\ pc = "textSvgDone"
    /\ FitsAt(fontOut)
    /\ ~svgOut.diverges

\* C30: whenever calculateFontSize accepts a size because the text fits
\* (line count x size x line-height <= panel height - 20), the block
\* createTextSvg lays out (line count x the line spacing it renders with)
\* fits within panel height - 20 as well, for the title panel and the
\* content panels
C30_AcceptedTextFitsAsRendered ==
    AcceptedAndLaidOut =>
       svgOut.totalTextHeight <= (fontIn.boxHeight - 20) * 10

====
